---- MODULE Spec2Model ----
(***************************************************************************)
(* The admin module of znc-admin (src/admin.cpp, class CAdminMod): the     *)
(* address resolver of OnUserRaw, the scope gate of OnUserCommand /        *)
(* OnNetworkCommand / OnChanCommand and the Help/List/Get/Set/Reset/exec   *)
(* dispatcher over the per-scope variable and command registries.          *)
(*                                                                         *)
(* Text that reaches the module from a client (targets, verbs, variable    *)
(* patterns, values) is a sequence of one-character strings, so that       *)
(* TrimPrefix, Split("/"), Equals (case-insensitive) and WildCmp are       *)
(* computed and not assumed.  The name spaces of users, networks and       *)
(* channels may overlap, and a channel name may contain "/", the address   *)
(* separator (CChan takes any name while the network is not connected).    *)
(***************************************************************************)
EXTENDS Integers, Sequences, FiniteSets, TLC

\* users, infix: the host objects and the stored infix of each user's module
\* znc:          the global settings of CZNC
\* pc:           "idle" between lines, "done" when the handler has returned,
\*               "exited" when a CException left it and the process ended
\* inp, before:  the line being answered and the state it was read in
\* scope:        the scope handler OnUserRaw entered, or the resolution error
\* out, calls:   the reply lines sent and the registry closures invoked
\* ret:          the EModRet of OnUserRaw
VARIABLES users, infix, znc, pc, inp, before, scope, out, calls, ret

vars == <<users, infix, znc, pc, inp, before, scope, out, calls, ret>>

(***************************************************************************)
(* Bounds                                                                  *)
(***************************************************************************)
\* AddNetwork is only issued while the whole directory holds fewer networks
MaxTotalNetworks == 4

\* Set Motd is only issued while the message of the day has fewer lines
MaxMotd == 2

(***************************************************************************)
(* CString helpers                                                         *)
(***************************************************************************)
UpperChars == <<"A","B","C","D","E","F","G","H","I","J","K","L","M",
                "N","O","P","Q","R","S","T","U","V","W","X","Y","Z">>

LowerChars == <<"a","b","c","d","e","f","g","h","i","j","k","l","m",
                "n","o","p","q","r","s","t","u","v","w","x","y","z">>

Digits == {"0","1","2","3","4","5","6","7","8","9"}

LowerOf == [c \in { UpperChars[i] : i \in 1..26 } |->
               LowerChars[CHOOSE i \in 1..26 : UpperChars[i] = c]]

ToLower(c) == IF c \in DOMAIN LowerOf THEN LowerOf[c] ELSE c

AsLower(s) == [i \in 1..Len(s) |-> ToLower(s[i])]

\* CString::Equals, case-insensitive by default
Equals(a, b) == AsLower(a) = AsLower(b)

\* CString::StartsWith, case-insensitive by default
StartsWith(s, pfx) ==
    /\ Len(pfx) <= Len(s)
    /\ AsLower(SubSeq(s, 1, Len(pfx))) = AsLower(pfx)

\* CString::TrimPrefix: the remainder when s starts with pfx
TrimPrefix(s, pfx) == SubSeq(s, Len(pfx) + 1, Len(s))

RECURSIVE SplitAcc(_, _, _, _)
SplitAcc(s, d, cur, acc) ==
    IF s = <<>> THEN (IF cur = <<>> THEN acc ELSE Append(acc, cur))
    ELSE IF Head(s) = d
         THEN SplitAcc(Tail(s), d, <<>>, IF cur = <<>> THEN acc ELSE Append(acc, cur))
         ELSE SplitAcc(Tail(s), d, Append(cur, Head(s)), acc)

\* CString::Split(sDelim, vsParts, false): empty parts are dropped
SplitOn(s, d) == SplitAcc(s, d, <<>>, <<>>)

\* sTarget.Split("/", vsParts, false)
Split(s) == SplitOn(s, "/")

RECURSIVE WildMatch(_, _)
WildMatch(w, s) ==
    IF w = <<>> THEN s = <<>>
    ELSE IF Head(w) = "*"
         THEN WildMatch(Tail(w), s) \/ (s # <<>> /\ WildMatch(w, Tail(s)))
         ELSE /\ s # <<>>
              /\ (Head(w) = "?" \/ Head(w) = Head(s))
              /\ WildMatch(Tail(w), Tail(s))

\* Var.name.WildCmp(sVar, CString::CaseInsensitive)
WildCmp(name, wild) == WildMatch(AsLower(wild), AsLower(name))

RECURSIVE JoinTokens(_)
JoinTokens(ts) ==
    IF ts = <<>> THEN <<>>
    ELSE IF Len(ts) = 1 THEN ts[1]
    ELSE ts[1] \o <<" ">> \o JoinTokens(Tail(ts))

\* sLine.Token(n) on a line held as its space-separated tokens (n from 0)
Token(line, n) == IF n + 1 <= Len(line) THEN line[n + 1] ELSE <<>>

\* sLine.Token(n, true): the rest of the line from token n on
TokenRest(line, n) ==
    IF n + 1 <= Len(line) THEN JoinTokens(SubSeq(line, n + 1, Len(line))) ELSE <<>>

\* CString::ToBool: false for an all-zero string, "false", "no", "n" and "off"
ToBool(s) ==
    /\ \E i \in 1..Len(s) : s[i] # "0"
    /\ ~Equals(s, <<"f","a","l","s","e">>)
    /\ ~Equals(s, <<"n","o">>)
    /\ ~Equals(s, <<"n">>)
    /\ ~Equals(s, <<"o","f","f">>)

\* CString(bool) that writes the flag as a digit
BoolStr_Digit(b) == IF b THEN <<"1">> ELSE <<"0">>

\* CString(bool)
BoolStr(b) == IF b THEN <<"t","r","u","e">> ELSE <<"f","a","l","s","e">>

\* CIRCNetwork::IsValidNetwork: letters and digits
IsValidNetwork(s) ==
    /\ s # <<>>
    /\ \A i \in 1..Len(s) :
          \/ s[i] \in Digits
          \/ s[i] \in DOMAIN LowerOf
          \/ \E c \in DOMAIN LowerOf : LowerOf[c] = s[i]

UpperOf == [c \in { LowerChars[i] : i \in 1..26 } |->
               UpperChars[CHOOSE i \in 1..26 : LowerChars[i] = c]]

\* CString::AsUpper
AsUpper(s) == [i \in 1..Len(s) |-> IF s[i] \in DOMAIN UpperOf THEN UpperOf[s[i]] ELSE s[i]]

DigitChars == <<"0","1","2","3","4","5","6","7","8","9">>

DigitValue == [c \in Digits |-> (CHOOSE i \in 1..10 : DigitChars[i] = c) - 1]

RECURSIVE ToUIntAcc(_, _)
ToUIntAcc(s, acc) ==
    IF s = <<>> \/ Head(s) \notin Digits THEN acc
    ELSE ToUIntAcc(Tail(s), acc * 10 + DigitValue[Head(s)])

\* CString::ToUInt: the leading decimal digits, 0 when there are none (the
\* numbers typed below have at most six digits, far from the width of an
\* unsigned int)
ToUInt(s) == ToUIntAcc(s, 0)

RECURSIVE UIntStr(_)
\* CString(unsigned int)
UIntStr(n) ==
    IF n < 10 THEN << DigitChars[n + 1] >>
    ELSE Append(UIntStr(n \div 10), DigitChars[(n % 10) + 1])

\* the characters of the texts below in the order of their codes
CharCodes == <<" ","!","#","*",".","/">> \o DigitChars \o UpperChars \o LowerChars

CodeOf == [c \in { CharCodes[i] : i \in 1..Len(CharCodes) } |->
              CHOOSE i \in 1..Len(CharCodes) : CharCodes[i] = c]

RECURSIVE Less(_, _)
\* operator< of CString: the order of std::set<CString> and std::map<CString, _>
Less(a, b) ==
    IF b = <<>> THEN FALSE
    ELSE IF a = <<>> THEN TRUE
    ELSE IF Head(a) # Head(b) THEN CodeOf[Head(a)] < CodeOf[Head(b)]
    ELSE Less(Tail(a), Tail(b))

RECURSIVE Sorted(_)
\* the elements of a std::set<CString> as begin()..end() visits them
Sorted(S) ==
    IF S = {} THEN <<>>
    ELSE LET m == CHOOSE x \in S : \A y \in S \ {x} : Less(x, y)
         IN <<m>> \o Sorted(S \ {m})

RECURSIVE JoinLines(_)
\* CString("\n").Join(begin, end)
JoinLines(vs) ==
    IF vs = <<>> THEN <<>>
    ELSE IF Len(vs) = 1 THEN vs[1]
    ELSE vs[1] \o <<"\n">> \o JoinLines(Tail(vs))

\* CString(".", size)
Dots(n) == [i \in 1..n |-> "."]

\* CUtils::GetSalt: the salts a password may be hashed with
Salts == { "s", "t" }

\* a salt is drawn by the setter of Password only, and setters run under Set
SaltsFor(rest) ==
    IF rest # <<>> /\ AsLower(rest[1]) = <<"s","e","t">> THEN Salts ELSE { "s" }

\* the length of CUser::SaltedHash, the same for every password (the hex
\* digest of SHA-256 has 64 characters; the texts here keep 8 of them)
HashLen == 8

\* CUser::SaltedHash(sVal, sSalt)
SaltedHash(sVal, sSalt) ==
    [i \in 1..HashLen |->
        IF i = 1 \/ sVal = <<>> THEN sSalt ELSE sVal[((i - 2) % Len(sVal)) + 1]]

\* the value the ChanBufferSize resetter sets
DefaultChanBufferSize == 50

\* the value the MaxBufferSize resetter sets
DefaultMaxBufferSize == 500

(***************************************************************************)
(* Text constants: names of the directory, of the registries and of the    *)
(* verbs, and the literals the clients type.                               *)
(***************************************************************************)
N_alice == <<"a","l","i","c","e">>

N_bob == <<"b","o","b">>

N_user == <<"u","s","e","r">>

N_network == <<"n","e","t","w","o","r","k">>

N_freenode == <<"f","r","e","e","n","o","d","e">>

N_efnet == <<"e","f","n","e","t">>

N_ircnet == <<"i","r","c","n","e","t">>

C_znc == <<"#","z","n","c">>

C_dev == <<"#","d","e","v">>

C_nope == <<"#","n","o","p","e">>

C_sub == <<"f","r","e","e","n","o","d","e","/","#","z","n","c">>

N_nobody == <<"n","o","b","o","d","y">>

V_Admin == <<"A","d","m","i","n">>

V_AdminInfix == <<"A","d","m","i","n","I","n","f","i","x">>

V_BindHost == <<"B","i","n","d","H","o","s","t">>

V_DCCBindHost == <<"D","C","C","B","i","n","d","H","o","s","t">>

V_DenySetBindHost == <<"D","e","n","y","S","e","t","B","i","n","d","H","o","s","t">>

V_Key == <<"K","e","y">>

V_Allow == <<"A","l","l","o","w">>

V_ChanBufferSize == <<"C","h","a","n","B","u","f","f","e","r","S","i","z","e">>

V_CTCPReply == <<"C","T","C","P","R","e","p","l","y">>

V_Password == <<"P","a","s","s","w","o","r","d">>

V_MaxBufferSize == <<"M","a","x","B","u","f","f","e","r","S","i","z","e">>

V_Motd == <<"M","o","t","d">>

V_Skin == <<"S","k","i","n">>

V_DenyLoadMod == <<"D","e","n","y","L","o","a","d","M","o","d">>

V_MaxNetworks == <<"M","a","x","N","e","t","w","o","r","k","s">>

W_LoadMod == <<"L","o","a","d","M","o","d">>

W_ReloadMod == <<"R","e","l","o","a","d","M","o","d">>

W_UnloadMod == <<"U","n","l","o","a","d","M","o","d">>

M_log == <<"l","o","g">>

W_DelUser == << "D","e","l","U","s","e","r" >>

W_ListPorts == << "L","i","s","t","P","o","r","t","s" >>

W_Rehash == << "R","e","h","a","s","h" >>

V_StatusPrefix == <<"S","t","a","t","u","s","P","r","e","f","i","x">>

W_Help == <<"H","e","l","p">>

W_List == <<"L","i","s","t">>

W_Get == <<"G","e","t">>

W_Set == <<"S","e","t">>

W_Reset == <<"R","e","s","e","t">>

W_AddNetwork == <<"A","d","d","N","e","t","w","o","r","k">>

W_DelNetwork == <<"D","e","l","N","e","t","w","o","r","k">>

W_ListNetworks == <<"L","i","s","t","N","e","t","w","o","r","k","s">>

W_Traffic == <<"T","r","a","f","f","i","c">>

W_Broadcast == <<"B","r","o","a","d","c","a","s","t">>

W_Restart == <<"R","e","s","t","a","r","t">>

W_SaveConfig == <<"S","a","v","e","C","o","n","f","i","g">>

W_Shutdown == <<"S","h","u","t","d","o","w","n">>

W_Bogus == <<"B","o","g","u","s">>

W_PRIVMSG == <<"P","R","I","V","M","S","G">>

W_ZNC == <<"Z","N","C">>

W_NOTICE == <<"N","O","T","I","C","E">>

K_user == <<"u","s","e","r">>

K_network == <<"n","e","t","w","o","r","k">>

L_true == <<"t","r","u","e">>

L_false == <<"f","a","l","s","e">>

L_host == <<"h","1">>

L_star == <<"*">>

L_bang == <<"!">>

L_anyBindHost == <<"*","B","i","n","d","H","o","s","t">>

L_addnetwork == <<"a","d","d","n","e","t","w","o","r","k">>

L_integer == <<"i","n","t","e","g","e","r">>

L_Se == <<"S","e">>

L_Add == <<"A","d","d">>

L_force == <<"-","-","f","o","r","c","e">>

L_FORCE == <<"-","-","F","O","R","C","E">>

L_bye == <<"b","y","e">>

L_shutdown == <<"s","h","u","t","d","o","w","n">>

L_help == <<"h","e","l","p">>

L_a == <<"a">>

L_b == <<"b">>

L_x == <<"x">>

L_3 == <<"3">>

L_loadmod == <<"l","o","a","d","m","o","d">>

L_y == <<"y">>

L_VERSION == <<"V","E","R","S","I","O","N">>

L_version == <<"v","e","r","s","i","o","n">>

L_PING == <<"P","I","N","G">>

L_40 == <<"4","0">>

L_045 == <<"0","4","5">>

L_600 == <<"6","0","0">>

L_999999 == <<"9","9","9","9","9","9">>

L_on == <<"o","n">>

L_secret == <<"s","e","c","r","e","t">>

L_anyC == <<"C","*">>

L_anyD == <<"d","*">>

L_anyc == <<"c","*">>

L_status == <<"s","t","a","t","u","s">>

(***************************************************************************)
(* Host objects (CZNC, CUser, CIRCNetwork, CChan) as the module sees them. *)
(* users maps the name of every existing user to its record; nets maps the *)
(* name of each of its networks to a record; chans maps the name of each   *)
(* channel of a network to the channel key.                                *)
(***************************************************************************)
NoNetwork == <<>>

\* CUser::GetStatusPrefix (the host default)
GetStatusPrefix(u) == <<"*">>

\* CZNC::FindUser: exact lookup in the user map
FindUser(us, name) == IF name \in DOMAIN us THEN name ELSE <<>>

\* CUser::FindNetwork: first network whose name Equals the argument
FindNetwork(us, u, name) ==
    IF \E n \in DOMAIN us[u].nets : Equals(n, name)
    THEN CHOOSE n \in DOMAIN us[u].nets : Equals(n, name)
    ELSE <<>>

\* CIRCNetwork::FindChan: first channel whose name Equals the argument
FindChan(us, u, n, name) ==
    IF \E c \in DOMAIN us[u].nets[n].chans : Equals(c, name)
    THEN CHOOSE c \in DOMAIN us[u].nets[n].chans : Equals(c, name)
    ELSE <<>>

\* pUser->GetNetworks().size()
NetworkCount(us, u) == Cardinality(DOMAIN us[u].nets)

\* pUser->GetNetworks().front(), read only when the user has one network
FirstNetwork(us, u) == CHOOSE n \in DOMAIN us[u].nets : TRUE

\* CUser::HasSpaceForNewNetwork
HasSpaceForNewNetwork(us, u) == NetworkCount(us, u) < us[u].maxNetworks

EmptyFn == [x \in {} |-> <<>>]

NewNetwork == [bindHost |-> <<>>, chans |-> EmptyFn, mods |-> {}]

\* GetInfix without the fallback
GetInfix_StoredOnly(ix, p) == ix[p]

\* CAdminMod::GetInfix: the stored "infix" or, when empty, the status prefix
GetInfix(ix, p) == IF ix[p] = <<>> THEN GetStatusPrefix(p) ELSE ix[p]

(***************************************************************************)
(* Scopes handed to the scope handlers                                     *)
(***************************************************************************)
UserScope(u) == [kind |-> "User", user |-> u, net |-> <<>>, chan |-> <<>>, msg |-> ""]

NetworkScope(u, n) == [kind |-> "Network", user |-> u, net |-> n, chan |-> <<>>, msg |-> ""]

ChanScope(u, n, c) == [kind |-> "Channel", user |-> u, net |-> n, chan |-> c, msg |-> ""]

ErrorScope(msg) == [kind |-> "Error", user |-> <<>>, net |-> <<>>, chan |-> <<>>, msg |-> msg]

\* &CZNC::Get(), the object OnModCommand hands to the verb handlers
GlobalScope == [kind |-> "Global", user |-> <<>>, net |-> <<>>, chan |-> <<>>, msg |-> ""]

NoScope == [kind |-> "None", user |-> <<>>, net |-> <<>>, chan |-> <<>>, msg |-> ""]

\* ResolveUserPair that searches every network of the user for the channel
ResolveUserPair_AnyNetwork(us, p, cn, a, b) ==
    LET pNetwork == FindNetwork(us, a, b)
        pOwnChan == IF a = p /\ cn # NoNetwork THEN FindChan(us, p, cn, b) ELSE <<>>
        hits == { n \in DOMAIN us[a].nets : FindChan(us, a, n, b) # <<>> }
        pAny == CHOOSE n \in hits : TRUE
    IN IF pNetwork # <<>> THEN NetworkScope(a, pNetwork)
       ELSE IF pOwnChan # <<>> THEN ChanScope(p, cn, pOwnChan)
       ELSE IF hits # {} THEN ChanScope(a, pAny, FindChan(us, a, pAny, b))
       ELSE ErrorScope("unknown (or ambiguous) network or channel")

\* the <user/network> and <user/#chan> branch of OnUserRaw
ResolveUserPair(us, p, cn, a, b) ==
    LET pNetwork == FindNetwork(us, a, b)
        pOwnChan == IF a = p /\ cn # NoNetwork THEN FindChan(us, p, cn, b) ELSE <<>>
        pFirstChan == IF NetworkCount(us, a) = 1
                      THEN FindChan(us, a, FirstNetwork(us, a), b) ELSE <<>>
    IN IF pNetwork # <<>> THEN NetworkScope(a, pNetwork)
       ELSE IF pOwnChan # <<>> THEN ChanScope(p, cn, pOwnChan)
       ELSE IF pFirstChan # <<>> THEN ChanScope(a, FirstNetwork(us, a), pFirstChan)
       ELSE ErrorScope("unknown (or ambiguous) network or channel")

\* ResolveNetworkPair that answers an unknown first part with an error
ResolveNetworkPair_Error(us, p, a, b) ==
    LET pNetwork == FindNetwork(us, p, a)
        pChan == IF pNetwork # <<>> THEN FindChan(us, p, pNetwork, b) ELSE <<>>
    IN IF pNetwork = <<>> THEN ErrorScope("unknown network")
       ELSE IF pChan # <<>> THEN ChanScope(p, pNetwork, pChan)
       ELSE ErrorScope("unknown channel")

\* the <network/#chan> branch of OnUserRaw
ResolveNetworkPair(us, p, a, b) ==
    LET pNetwork == FindNetwork(us, p, a)
        pChan == IF pNetwork # <<>> THEN FindChan(us, p, pNetwork, b) ELSE <<>>
    IN IF pNetwork = <<>> THEN NoScope
       ELSE IF pChan # <<>> THEN ChanScope(p, pNetwork, pChan)
       ELSE ErrorScope("unknown channel")

\* ResolveTwo that falls back on the caller's network named like the user
ResolveTwo_NetworkFallback(us, p, cn, a, b) ==
    IF FindUser(us, a) # <<>> /\ (ResolveUserPair(us, p, cn, a, b).kind # "Error"
                                   \/ FindNetwork(us, p, a) = <<>>)
    THEN ResolveUserPair(us, p, cn, a, b)
    ELSE ResolveNetworkPair(us, p, a, b)

\* the two-part branch of OnUserRaw
ResolveTwo(us, p, cn, a, b) ==
    IF FindUser(us, a) # <<>> THEN ResolveUserPair(us, p, cn, a, b)
    ELSE ResolveNetworkPair(us, p, a, b)

\* ResolveThree that lets a missing channel fall through
ResolveThree_FallThrough(us, a, b, c) ==
    LET pNetwork == IF FindUser(us, a) # <<>> THEN FindNetwork(us, a, b) ELSE <<>>
        pChan == IF pNetwork # <<>> THEN FindChan(us, a, pNetwork, c) ELSE <<>>
    IN IF FindUser(us, a) = <<>> THEN NoScope
       ELSE IF pNetwork = <<>> THEN ErrorScope("unknown network")
       ELSE IF pChan = <<>> THEN NoScope
       ELSE ChanScope(a, pNetwork, pChan)

\* the three-part branch of OnUserRaw
ResolveThree(us, a, b, c) ==
    LET pNetwork == IF FindUser(us, a) # <<>> THEN FindNetwork(us, a, b) ELSE <<>>
        pChan == IF pNetwork # <<>> THEN FindChan(us, a, pNetwork, c) ELSE <<>>
    IN IF FindUser(us, a) = <<>> THEN NoScope
       ELSE IF pNetwork = <<>> THEN ErrorScope("unknown network")
       ELSE IF pChan = <<>> THEN ErrorScope("unknown channel")
       ELSE ChanScope(a, pNetwork, pChan)

\* the slash-split part of OnUserRaw
ResolveParts(us, p, cn, vsParts) ==
    IF Len(vsParts) = 2 THEN ResolveTwo(us, p, cn, vsParts[1], vsParts[2])
    ELSE IF Len(vsParts) = 3 THEN ResolveThree(us, vsParts[1], vsParts[2], vsParts[3])
    ELSE NoScope

\* Resolve that looks the token up as a channel before the own networks
Resolve_ChanFirst(us, p, cn, tok) ==
    LET pNetwork == FindNetwork(us, p, tok)
        pChan == IF cn # NoNetwork THEN FindChan(us, p, cn, tok) ELSE <<>>
    IN IF Equals(tok, K_user) THEN UserScope(p)
       ELSE IF FindUser(us, tok) # <<>> THEN UserScope(tok)
       ELSE IF Equals(tok, K_network) /\ cn # NoNetwork THEN NetworkScope(p, cn)
       ELSE IF pChan # <<>> THEN ChanScope(p, cn, pChan)
       ELSE IF pNetwork # <<>> THEN NetworkScope(p, pNetwork)
       ELSE ResolveParts(us, p, cn, Split(tok))

\* Resolve that takes a bare channel name only from a user with one network
Resolve_SingleNetworkOnly(us, p, cn, tok) ==
    LET pNetwork == FindNetwork(us, p, tok)
        pChan == IF cn # NoNetwork /\ NetworkCount(us, p) = 1
                 THEN FindChan(us, p, cn, tok) ELSE <<>>
    IN IF Equals(tok, K_user) THEN UserScope(p)
       ELSE IF FindUser(us, tok) # <<>> THEN UserScope(tok)
       ELSE IF Equals(tok, K_network) /\ cn # NoNetwork THEN NetworkScope(p, cn)
       ELSE IF pNetwork # <<>> THEN NetworkScope(p, pNetwork)
       ELSE IF pChan # <<>> THEN ChanScope(p, cn, pChan)
       ELSE ResolveParts(us, p, cn, Split(tok))

\* the part of OnUserRaw after the prefix was stripped: which scope handler
\* is entered for the token, which resolution error is sent, or neither
Resolve(us, p, cn, tok) ==
    LET pNetwork == FindNetwork(us, p, tok)
        pChan == IF cn # NoNetwork THEN FindChan(us, p, cn, tok) ELSE <<>>
    IN IF Equals(tok, K_user) THEN UserScope(p)
       ELSE IF FindUser(us, tok) # <<>> THEN UserScope(tok)
       ELSE IF Equals(tok, K_network) /\ cn # NoNetwork THEN NetworkScope(p, cn)
       ELSE IF pNetwork # <<>> THEN NetworkScope(p, pNetwork)
       ELSE IF pChan # <<>> THEN ChanScope(p, cn, pChan)
       ELSE ResolveParts(us, p, cn, Split(tok))

(***************************************************************************)
(* Replies.  A handler works on st = [users, infix, out, calls]: the host  *)
(* objects, the stored infix of every user's module instance, the reply    *)
(* lines emitted so far and the registry closures invoked so far.  tgt is  *)
(* the query the replies go to, which PutLine takes from m_sTarget.        *)
(***************************************************************************)
ReplyLine(tgt, prefix, msg, name, value) ==
    [tgt |-> tgt, prefix |-> prefix, msg |-> msg, name |-> name, value |-> value]

PutLine(st, tgt, msg, name, value) ==
    [st EXCEPT !.out = Append(@, ReplyLine(tgt, "", msg, name, value))]

PutError(st, tgt, msg) ==
    [st EXCEPT !.out = Append(@, ReplyLine(tgt, "Error: ", msg, <<>>, <<>>))]

\* PutError(msg + CString(value))
PutErrorValue(st, tgt, msg, value) ==
    [st EXCEPT !.out = Append(@, ReplyLine(tgt, "Error: ", msg, <<>>, value))]

PutUsage(st, tgt, msg) ==
    [st EXCEPT !.out = Append(@, ReplyLine(tgt, "Usage: ", msg, <<>>, <<>>))]

PutSuccess(st, tgt, msg) ==
    [st EXCEPT !.out = Append(@, ReplyLine(tgt, "Success: ", msg, <<>>, <<>>))]

RECURSIVE PutRows(_, _, _)
PutRows(st, tgt, rows) ==
    IF rows = <<>> THEN st
    ELSE PutRows(PutLine(st, tgt, "table row", Head(rows), <<>>), tgt, Tail(rows))

\* PutTable: CTable::GetLine yields a border, the header, a border, one line
\* per row and a closing border, and no line at all for a table without rows
PutTable(st, tgt, rows) ==
    IF rows = <<>> THEN st ELSE
    LET top == PutLine(PutLine(PutLine(st, tgt, "table border", <<>>, <<>>),
                               tgt, "table header", <<>>, <<>>),
                       tgt, "table border", <<>>, <<>>)
    IN PutLine(PutRows(top, tgt, rows), tgt, "table border", <<>>, <<>>)

Called(st, op, sc, name) ==
    [st EXCEPT !.calls = Append(@, [op |-> op, kind |-> sc.kind, user |-> sc.user,
                                    net |-> sc.net, chan |-> sc.chan, name |-> name])]

(***************************************************************************)
(* Variable registries (the entries the properties below observe, in the   *)
(* order of the source)                                                    *)
(***************************************************************************)
Var(name, type) == [name |-> name, type |-> type, hasReset |-> TRUE]

\* an entry whose reset is nullptr
VarNoReset(name, type) == [name |-> name, type |-> type, hasReset |-> FALSE]

GlobalVars == << Var(V_MaxBufferSize, "Integer"), Var(V_Motd, "List"),
                 Var(V_Skin, "String"), Var(V_StatusPrefix, "String") >>

UserVars == << Var(V_Admin, "Boolean"), Var(V_AdminInfix, "String"),
               Var(V_Allow, "List"), Var(V_BindHost, "String"),
               Var(V_ChanBufferSize, "Integer"), Var(V_CTCPReply, "List"),
               Var(V_DCCBindHost, "String"), Var(V_DenyLoadMod, "Boolean"),
               Var(V_DenySetBindHost, "Boolean"), Var(V_MaxNetworks, "Integer"),
               VarNoReset(V_Password, "String") >>

NetworkVars == << Var(V_BindHost, "String") >>

ChanVars == << Var(V_Key, "String") >>

VarsOf(sc) ==
    IF sc.kind = "User" THEN UserVars
    ELSE IF sc.kind = "Network" THEN NetworkVars
    ELSE IF sc.kind = "Channel" THEN ChanVars
    ELSE GlobalVars

Range(f) == { f[i] : i \in DOMAIN f }

\* the getter of Allow that lists the hosts from the last to the first
AllowLines_Backwards(ssHosts) ==
    LET hosts == Sorted(ssHosts)
    IN JoinLines([i \in 1..Len(hosts) |-> hosts[Len(hosts) + 1 - i]])

\* the getter of Allow: the hosts of the SCString, in its order
AllowLines(ssHosts) == JoinLines(Sorted(ssHosts))

\* the getter of CTCPReply: "request reply" of every entry, in key order
CTCPLines(m) ==
    LET keys == Sorted(DOMAIN m)
    IN JoinLines([i \in 1..Len(keys) |-> keys[i] \o <<" ">> \o m[keys[i]]])

\* Var.get(pObject)
VarGet(st, p, sc, name) ==
    IF sc.kind = "User" THEN
        IF name = V_Admin THEN BoolStr(st.users[sc.user].admin)
        ELSE IF name = V_AdminInfix THEN GetInfix(st.infix, p)
        ELSE IF name = V_Allow THEN AllowLines(st.users[sc.user].allow)
        ELSE IF name = V_BindHost THEN st.users[sc.user].bindHost
        ELSE IF name = V_ChanBufferSize THEN UIntStr(st.users[sc.user].chanBufferSize)
        ELSE IF name = V_CTCPReply THEN CTCPLines(st.users[sc.user].ctcp)
        ELSE IF name = V_DCCBindHost THEN st.users[sc.user].dccBindHost
        ELSE IF name = V_DenyLoadMod THEN BoolStr(st.users[sc.user].denyLoadMod)
        ELSE IF name = V_DenySetBindHost THEN BoolStr(st.users[sc.user].denySetBindHost)
        ELSE IF name = V_MaxNetworks THEN UIntStr(st.users[sc.user].maxNetworks)
        ELSE Dots(Len(st.users[sc.user].pass))
    ELSE IF sc.kind = "Network" THEN st.users[sc.user].nets[sc.net].bindHost
    ELSE IF sc.kind = "Channel" THEN st.users[sc.user].nets[sc.net].chans[sc.chan]
    ELSE IF name = V_MaxBufferSize THEN UIntStr(st.znc.maxBufferSize)
    ELSE IF name = V_Motd THEN JoinLines(st.znc.motd)
    ELSE st.znc.skin

Done(ok, st) == [ok |-> ok, st |-> st]

\* GetUser()->IsAdmin()
IsAdmin(st, p) == st.users[p].admin

\* the guard of the BindHost and DCCBindHost setters
DenySetBindHost(st, p) == ~IsAdmin(st, p) /\ st.users[p].denySetBindHost

\* the setter of CTCPReply that drops every entry when it removes one
SetCTCPReply_DropsAll(st, tgt, sc, val) ==
    LET words == SplitOn(val, " ")
        sRequest == IF words = <<>> THEN <<>> ELSE words[1]
        sReply == IF Len(words) < 2 THEN <<>> ELSE JoinTokens(Tail(words))
        m == st.users[sc.user].ctcp
        key == AsUpper(sRequest)
    IN IF sReply = <<>>
       THEN IF key \in DOMAIN m
            THEN Done(TRUE, [st EXCEPT !.users[sc.user].ctcp = EmptyFn])
            ELSE Done(FALSE, PutError(st, tgt, "unable to remove"))
       ELSE IF sRequest = <<>>
            THEN Done(FALSE, PutError(st, tgt, "unable to add"))
            ELSE Done(TRUE, [st EXCEPT !.users[sc.user].ctcp =
                                          [k \in DOMAIN m \cup {key} |->
                                              IF k = key THEN sReply ELSE m[k]]])

\* the setter of CTCPReply: "request reply" adds or replaces the entry of the
\* request, "request" alone removes it
SetCTCPReply(st, tgt, sc, val) ==
    LET words == SplitOn(val, " ")
        sRequest == IF words = <<>> THEN <<>> ELSE words[1]
        sReply == IF Len(words) < 2 THEN <<>> ELSE JoinTokens(Tail(words))
        m == st.users[sc.user].ctcp
        key == AsUpper(sRequest)
    IN IF sReply = <<>>
       THEN IF key \in DOMAIN m
            THEN Done(TRUE, [st EXCEPT !.users[sc.user].ctcp =
                                          [k \in DOMAIN m \ {key} |-> m[k]]])
            ELSE Done(FALSE, PutError(st, tgt, "unable to remove"))
       ELSE IF sRequest = <<>>
            THEN Done(FALSE, PutError(st, tgt, "unable to add"))
            ELSE Done(TRUE, [st EXCEPT !.users[sc.user].ctcp =
                                          [k \in DOMAIN m \cup {key} |->
                                              IF k = key THEN sReply ELSE m[k]]])

\* the setter of ChanBufferSize with the limit left out
SetChanBufferSize_NoLimit(st, p, tgt, sc, val) ==
    Done(TRUE, [st EXCEPT !.users[sc.user].chanBufferSize = ToUInt(val)])

\* the setter of ChanBufferSize: pUser->SetChanBufferSize(sVal.ToUInt(),
\* GetUser()->IsAdmin()) refuses a size above the limit unless forced
SetChanBufferSize(st, p, tgt, sc, val) ==
    IF ~IsAdmin(st, p) /\ ToUInt(val) > st.znc.maxBufferSize
    THEN Done(FALSE, PutErrorValue(st, tgt, "exceeded limit",
                                   UIntStr(st.znc.maxBufferSize)))
    ELSE Done(TRUE, [st EXCEPT !.users[sc.user].chanBufferSize = ToUInt(val)])

\* Var.set(pObject, sVal)
VarSet(st, p, tgt, sc, name, val) ==
    IF sc.kind = "User" THEN
        IF name = V_Admin
        THEN Done(TRUE, [st EXCEPT !.users[sc.user].admin = ToBool(val)])
        ELSE IF name = V_AdminInfix
        THEN Done(TRUE, [st EXCEPT !.infix[p] = val])
        ELSE IF name = V_Allow
        THEN Done(TRUE, [st EXCEPT !.users[sc.user].allow =
                                      @ \cup Range(SplitOn(val, " "))])
        ELSE IF name = V_BindHost
        THEN IF DenySetBindHost(st, p)
             THEN Done(FALSE, PutError(st, tgt, "access denied"))
             ELSE Done(TRUE, [st EXCEPT !.users[sc.user].bindHost = val])
        ELSE IF name = V_ChanBufferSize
        THEN SetChanBufferSize(st, p, tgt, sc, val)
        ELSE IF name = V_CTCPReply
        THEN SetCTCPReply(st, tgt, sc, val)
        ELSE IF name = V_DCCBindHost
        THEN IF DenySetBindHost(st, p)
             THEN Done(FALSE, PutError(st, tgt, "access denied"))
             ELSE Done(TRUE, [st EXCEPT !.users[sc.user].dccBindHost = val])
        ELSE IF name = V_DenyLoadMod
        THEN IF ~IsAdmin(st, p)
             THEN Done(FALSE, PutError(st, tgt, "access denied"))
             ELSE Done(TRUE, [st EXCEPT !.users[sc.user].denyLoadMod = ToBool(val)])
        ELSE IF name = V_DenySetBindHost
        THEN IF ~IsAdmin(st, p)
             THEN Done(FALSE, PutError(st, tgt, "access denied"))
             ELSE Done(TRUE, [st EXCEPT !.users[sc.user].denySetBindHost = ToBool(val)])
        ELSE IF name = V_MaxNetworks
        THEN IF ~IsAdmin(st, p)
             THEN Done(FALSE, PutError(st, tgt, "access denied"))
             ELSE Done(TRUE, [st EXCEPT !.users[sc.user].maxNetworks = ToUInt(val)])
        ELSE Done(TRUE, [st EXCEPT !.users[sc.user].pass = SaltedHash(val, st.salt)])
    ELSE IF sc.kind = "Network" THEN
        IF DenySetBindHost(st, p)
        THEN Done(FALSE, PutError(st, tgt, "access denied"))
        ELSE Done(TRUE, [st EXCEPT !.users[sc.user].nets[sc.net].bindHost = val])
    ELSE IF sc.kind = "Channel"
    THEN Done(TRUE, [st EXCEPT !.users[sc.user].nets[sc.net].chans[sc.chan] = val])
    ELSE IF name = V_MaxBufferSize
    THEN Done(TRUE, [st EXCEPT !.znc.maxBufferSize = ToUInt(val)])
    ELSE IF name = V_Motd
    THEN Done(TRUE, [st EXCEPT !.znc.motd = Append(@, val)])
    ELSE Done(TRUE, [st EXCEPT !.znc.skin = val])

\* pUser->SetMaxNetworks(1) of the MaxNetworks resetter
ResetMaxNetworks == 1

\* Var.reset(pObject)
VarReset(st, p, tgt, sc, name) ==
    IF sc.kind = "User" THEN
        IF name = V_Admin
        THEN Done(TRUE, [st EXCEPT !.users[sc.user].admin = FALSE])
        ELSE IF name = V_AdminInfix
        THEN Done(TRUE, [st EXCEPT !.infix[p] = GetStatusPrefix(p)])
        ELSE IF name = V_Allow
        THEN Done(TRUE, [st EXCEPT !.users[sc.user].allow = {}])
        ELSE IF name = V_BindHost
        THEN Done(TRUE, [st EXCEPT !.users[sc.user].bindHost = <<>>])
        ELSE IF name = V_ChanBufferSize
        THEN Done(TRUE, [st EXCEPT !.users[sc.user].chanBufferSize =
                                      IF DefaultChanBufferSize > st.znc.maxBufferSize
                                      THEN @ ELSE DefaultChanBufferSize])
        ELSE IF name = V_CTCPReply
        THEN Done(TRUE, [st EXCEPT !.users[sc.user].ctcp = EmptyFn])
        ELSE IF name = V_DCCBindHost
        THEN Done(TRUE, [st EXCEPT !.users[sc.user].dccBindHost = <<>>])
        ELSE IF name = V_DenyLoadMod
        THEN IF ~IsAdmin(st, p)
             THEN Done(FALSE, PutError(st, tgt, "access denied"))
             ELSE Done(TRUE, [st EXCEPT !.users[sc.user].denyLoadMod = FALSE])
        ELSE IF name = V_DenySetBindHost
        THEN IF ~IsAdmin(st, p)
             THEN Done(FALSE, PutError(st, tgt, "access denied"))
             ELSE Done(TRUE, [st EXCEPT !.users[sc.user].denySetBindHost = FALSE])
        ELSE IF ~IsAdmin(st, p)
             THEN Done(FALSE, PutError(st, tgt, "access denied"))
             ELSE Done(TRUE, [st EXCEPT !.users[sc.user].maxNetworks = ResetMaxNetworks])
    ELSE IF sc.kind = "Network"
    THEN Done(TRUE, [st EXCEPT !.users[sc.user].nets[sc.net].bindHost = <<>>])
    ELSE IF sc.kind = "Channel"
    THEN Done(TRUE, [st EXCEPT !.users[sc.user].nets[sc.net].chans[sc.chan] = <<>>])
    ELSE IF name = V_MaxBufferSize
    THEN Done(TRUE, [st EXCEPT !.znc.maxBufferSize = DefaultMaxBufferSize])
    ELSE IF name = V_Motd
    THEN Done(TRUE, [st EXCEPT !.znc.motd = <<>>])
    ELSE IF name = V_Skin
    THEN Done(TRUE, [st EXCEPT !.znc.skin = <<>>])
    ELSE Done(TRUE, [st EXCEPT !.znc.statusPrefix = <<>>])

(***************************************************************************)
(* Command registries                                                      *)
(***************************************************************************)
\* the entries of the registries that the lines below address; the commands
\* of NetworkCmds are not among them
UserCmds == << W_AddNetwork, W_DelNetwork, W_ListNetworks, W_LoadMod, W_ReloadMod,
              W_Traffic, W_UnloadMod >>

NetworkCmds == << W_LoadMod, W_ReloadMod, W_UnloadMod >>

ChanCmds == << >>

GlobalCmds == << W_Broadcast, W_DelUser, W_ListPorts, W_LoadMod, W_Rehash, W_ReloadMod,
                W_Restart, W_SaveConfig, W_Shutdown, W_UnloadMod >>

CmdsOf(sc) ==
    IF sc.kind = "User" THEN UserCmds
    ELSE IF sc.kind = "Network" THEN NetworkCmds
    ELSE IF sc.kind = "Channel" THEN ChanCmds
    ELSE GlobalCmds

\* AddNetwork that never tests the limit
AddNetworkCmd_NoLimit(st, p, tgt, sc, sArgs) ==
    LET sNetwork == Token(sArgs, 0) IN
    IF sNetwork = <<>> THEN PutUsage(st, tgt, "AddNetwork <name>")
    ELSE IF ~IsValidNetwork(sNetwork)
    THEN PutError(st, tgt, "invalid name (must be alphanumeric)")
    ELSE IF FindNetwork(st.users, sc.user, sNetwork) # <<>>
    THEN PutError(st, tgt, "network already exists")
    ELSE PutSuccess([st EXCEPT !.users[sc.user].nets =
                        [n \in DOMAIN @ \cup {sNetwork} |->
                            IF n \in DOMAIN @ THEN @[n] ELSE NewNetwork]],
                    tgt, "network added")

\* UserCmds "AddNetwork <name>"
AddNetworkCmd(st, p, tgt, sc, sArgs) ==
    LET sNetwork == Token(sArgs, 0) IN
    IF ~IsAdmin(st, p) /\ ~HasSpaceForNewNetwork(st.users, sc.user)
    THEN PutError(st, tgt, "exceeded limit")
    ELSE IF sNetwork = <<>> THEN PutUsage(st, tgt, "AddNetwork <name>")
    ELSE IF ~IsValidNetwork(sNetwork)
    THEN PutError(st, tgt, "invalid name (must be alphanumeric)")
    ELSE IF FindNetwork(st.users, sc.user, sNetwork) # <<>>
    THEN PutError(st, tgt, "network already exists")
    ELSE PutSuccess([st EXCEPT !.users[sc.user].nets =
                        [n \in DOMAIN @ \cup {sNetwork} |->
                            IF n \in DOMAIN @ THEN @[n] ELSE NewNetwork]],
                    tgt, "network added")

\* UserCmds "DelNetwork <name>"
DelNetworkCmd(st, p, tgt, sc, sArgs) ==
    LET sNetwork == Token(sArgs, 0)
        found == FindNetwork(st.users, sc.user, sNetwork)
    IN
    IF sNetwork = <<>> THEN PutUsage(st, tgt, "DelNetwork <name>")
    ELSE IF found # <<>>
    THEN PutSuccess([st EXCEPT !.users[sc.user].nets =
                        [n \in DOMAIN @ \ {found} |-> @[n]]],
                    tgt, "network deleted")
    ELSE PutError(st, tgt, "unknown network")

\* Cmd.exec(pObject, sArgs)
\* pUser->GetNetworks(): the names, here in name order (the order in which
\* the networks were added is not part of the state)
NetworkNames(st, u) == Sorted(DOMAIN st.users[u].nets)

\* UserCmds "ListNetworks [filter]"
ListNetworksCmd(st, p, tgt, sc, sArgs) ==
    LET sFilter == Token(sArgs, 0)
        Table == SelectSeq(NetworkNames(st, sc.user),
                           LAMBDA n : sFilter = <<>> \/ WildCmp(n, sFilter))
    IN IF Table = <<>>
       THEN IF sFilter = <<>> THEN PutLine(st, tgt, "No networks", <<>>, <<>>)
            ELSE PutLine(st, tgt, "No matches for", sFilter, <<>>)
       ELSE PutTable(st, tgt, Table)

\* UserCmds "Traffic": one row per network of the user, then PutTable
TrafficCmd(st, p, tgt, sc, sArgs) == PutTable(st, tgt, NetworkNames(st, sc.user))

\* GlobalCmds "Broadcast <message>"
BroadcastCmd(st, p, tgt, sc, sArgs) ==
    IF sArgs = <<>> THEN PutUsage(st, tgt, "Broadcast <message>")
    ELSE Called(st, "Broadcast", sc, JoinTokens(sArgs))

\* GlobalCmds "SaveConfig"
SaveConfigCmd(st, p, tgt, sc, sArgs) ==
    LET wrote == Called(st, "WriteConfig", sc, BoolStr(st.writeOk))
    IN IF ~st.writeOk THEN PutError(wrote, tgt, "failed to write")
       ELSE PutSuccess(wrote, tgt, "wrote")

RestartMessage == <<"Z","N","C"," ","i","s"," ","b","e","i","n","g"," ","r","e","s","t","a","r","t","e","d"," ","N","O","W","!">>

ShutdownMessage == <<"Z","N","C"," ","i","s"," ","b","e","i","n","g"," ","s","h","u","t"," ","d","o","w","n"," ","N","O","W","!">>

\* Restart and Shutdown that ignore what WriteConfig returned
StopCmd_IgnoreWrite(st, tgt, sc, sArgs, eException, sDefault) ==
    LET bForce == Equals(Token(sArgs, 0), L_force)
        sGiven == TokenRest(sArgs, IF bForce THEN 1 ELSE 0)
        sMessage == IF sGiven = <<>> THEN sDefault ELSE sGiven
        wrote == Called(st, "WriteConfig", sc, BoolStr(st.writeOk))
    IN Called(Called(wrote, "Broadcast", sc, sMessage), "throw", sc, eException)

\* the body GlobalCmds "Restart" and "Shutdown" share: eException is the
\* kind of CException thrown, sDefault the message used when none is given
StopCmd(st, tgt, sc, sArgs, eException, sDefault) ==
    LET bForce == Equals(Token(sArgs, 0), L_force)
        sGiven == TokenRest(sArgs, IF bForce THEN 1 ELSE 0)
        sMessage == IF sGiven = <<>> THEN sDefault ELSE sGiven
        wrote == Called(st, "WriteConfig", sc, BoolStr(st.writeOk))
    IN IF ~st.writeOk /\ ~bForce
       THEN PutLine(PutError(wrote, tgt, "saving config failed"),
                    tgt, "Aborting. Use --force to ignore.", <<>>, <<>>)
       ELSE Called(Called(wrote, "Broadcast", sc, sMessage), "throw", sc, eException)

EX_Restart == <<"E","X","_","R","e","s","t","a","r","t">>

EX_Shutdown == <<"E","X","_","S","h","u","t","d","o","w","n">>

\* GlobalCmds "Restart [--force] [message]"
RestartCmd(st, p, tgt, sc, sArgs) ==
    StopCmd(st, tgt, sc, sArgs, EX_Restart, RestartMessage)

\* GlobalCmds "Shutdown [--force] [message]"
ShutdownCmd(st, p, tgt, sc, sArgs) ==
    StopCmd(st, tgt, sc, sArgs, EX_Shutdown, ShutdownMessage)

\* the modules GetModInfo finds
AvailableMods == { M_log }

\* pObject->GetModules(): the names of the modules loaded on the scope
ModsOf(st, sc) ==
    IF sc.kind = "User" THEN st.users[sc.user].mods
    ELSE IF sc.kind = "Network" THEN st.users[sc.user].nets[sc.net].mods
    ELSE st.znc.mods

WithMods(st, sc, mods) ==
    IF sc.kind = "User" THEN [st EXCEPT !.users[sc.user].mods = mods]
    ELSE IF sc.kind = "Network" THEN [st EXCEPT !.users[sc.user].nets[sc.net].mods = mods]
    ELSE [st EXCEPT !.znc.mods = mods]

\* GetUser()->DenyLoadMod() of a user that is not admin
DenyLoadMod(st, p) == ~IsAdmin(st, p) /\ st.users[p].denyLoadMod

\* OnLoadModCommand without the test of DenyLoadMod
OnLoadModCommand_NoGate(st, p, tgt, sc, sArgs) ==
    LET sMod == Token(sArgs, 0) IN
    IF sMod = <<>> THEN PutUsage(st, tgt, "LoadMod <module> [args]")
    ELSE IF sMod \notin AvailableMods THEN PutError(st, tgt, "sError")
    ELSE IF sMod \in ModsOf(st, sc)
    THEN PutError(Called(st, "LoadModule", sc, sMod), tgt, "sError")
    ELSE PutSuccess(WithMods(Called(st, "LoadModule", sc, sMod), sc,
                             ModsOf(st, sc) \cup { sMod }),
                    tgt, "module loaded")

OnLoadModCommand(st, p, tgt, sc, sArgs) ==
    LET sMod == Token(sArgs, 0) IN
    IF DenyLoadMod(st, p) THEN PutError(st, tgt, "access deniend")
    ELSE IF sMod = <<>> THEN PutUsage(st, tgt, "LoadMod <module> [args]")
    ELSE IF sMod \notin AvailableMods THEN PutError(st, tgt, "sError")
    ELSE IF sMod \in ModsOf(st, sc)
    THEN PutError(Called(st, "LoadModule", sc, sMod), tgt, "sError")
    ELSE PutSuccess(WithMods(Called(st, "LoadModule", sc, sMod), sc,
                             ModsOf(st, sc) \cup { sMod }),
                    tgt, "module loaded")

OnReloadModCommand(st, p, tgt, sc, sArgs) ==
    LET sMod == Token(sArgs, 0) IN
    IF DenyLoadMod(st, p) THEN PutError(st, tgt, "access deniend")
    ELSE IF sMod = <<>> THEN PutUsage(st, tgt, "ReloadMod <module> [args]")
    ELSE IF sMod \notin AvailableMods THEN PutError(st, tgt, "sError")
    ELSE IF sMod \notin ModsOf(st, sc)
    THEN PutError(Called(st, "ReloadModule", sc, sMod), tgt, "sError")
    ELSE PutSuccess(Called(st, "ReloadModule", sc, sMod), tgt, "module reloaded")

OnUnloadModCommand(st, p, tgt, sc, sArgs) ==
    LET sMod == Token(sArgs, 0) IN
    IF DenyLoadMod(st, p) THEN PutError(st, tgt, "access deniend")
    ELSE IF sMod = <<>> THEN PutUsage(st, tgt, "UnloadMod <module> [args]")
    ELSE IF sMod \notin AvailableMods THEN PutError(st, tgt, "sError")
    ELSE IF sMod \notin ModsOf(st, sc)
    THEN PutError(Called(st, "UnloadModule", sc, sMod), tgt, "sError")
    ELSE PutSuccess(WithMods(Called(st, "UnloadModule", sc, sMod), sc,
                             ModsOf(st, sc) \ { sMod }),
                    tgt, "module unloaded")

(***************************************************************************)
(* GlobalCmds "DelUser", "ListPorts" and "Rehash"                          *)
(***************************************************************************)
O_IPv6 == << "I","P","v","6" >>

O_IPv4 == << "I","P","v","4" >>

O_IRC == << "I","R","C" >>

O_WEB == << "W","E","B" >>

P_6667 == << "6","6","6","7" >>

P_6697 == << "6","6","9","7" >>

P_8080 == << "8","0","8","0" >>

L_uri == << "/","z","n","c" >>

\* DelUser that lets the sender delete itself
DelUserCmd_NoSelfTest(st, p, tgt, sc, sArgs) ==
    LET sUsername == Token(sArgs, 0)
        pUser == FindUser(st.users, sUsername)
    IN
    IF sUsername = <<>> THEN PutUsage(st, tgt, "DelUser <username>")
    ELSE IF pUser = <<>>
    THEN [st EXCEPT !.out = Append(@, ReplyLine(tgt, "Error: ", "user doesn't exist",
                                                 sUsername, <<>>))]
    ELSE LET deleted == Called(st, "DeleteUser", sc, pUser) IN
         [deleted EXCEPT !.users = [u \in DOMAIN @ \ {pUser} |-> @[u]],
                         !.out = Append(@, ReplyLine(tgt, "Success: ", "user deleted",
                                                     pUser, <<>>))]

\* GlobalCmds "DelUser <username>"; CZNC::DeleteUser finds the user FindUser
\* has just found and takes it out of the directory
DelUserCmd(st, p, tgt, sc, sArgs) ==
    LET sUsername == Token(sArgs, 0)
        pUser == FindUser(st.users, sUsername)
    IN
    IF sUsername = <<>> THEN PutUsage(st, tgt, "DelUser <username>")
    ELSE IF pUser = <<>>
    THEN [st EXCEPT !.out = Append(@, ReplyLine(tgt, "Error: ", "user doesn't exist",
                                                 sUsername, <<>>))]
    ELSE IF pUser = p THEN PutError(st, tgt, "access denied")
    ELSE LET deleted == Called(st, "DeleteUser", sc, pUser) IN
         [deleted EXCEPT !.users = [u \in DOMAIN @ \ {pUser} |-> @[u]],
                         !.out = Append(@, ReplyLine(tgt, "Success: ", "user deleted",
                                                     pUser, <<>>))]

\* GlobalCmds "Rehash"; st.writeOk is what the host call of the line returns,
\* here CZNC::RehashConfig
RehashCmd(st, p, tgt, sc, sArgs) ==
    LET read == Called(st, "RehashConfig", sc, BoolStr(st.writeOk))
    IN IF st.writeOk THEN PutError(read, tgt, "failed to read")
       ELSE PutSuccess(read, tgt, "read")

\* CString::TrimPrefix_n: the text without the prefix, if it starts with it
TrimPrefix_n(s, pfx) == IF StartsWith(s, pfx) THEN SubSeq(s, Len(pfx) + 1, Len(s)) ELSE s

Listener(port, bindHost, addr, accept, ssl, uriPrefix) ==
    [port |-> port, bindHost |-> bindHost, addr |-> addr, accept |-> accept,
     ssl |-> ssl, uriPrefix |-> uriPrefix]

\* pZNC->GetListeners(): an IRC port, an SSL port for IRC and web over IPv4,
\* and a web port bound to a host over IPv6
Listeners ==
    << Listener(P_6667, <<>>, "ALL", "IRC", FALSE, <<>>),
       Listener(P_6697, <<>>, "IPV4ONLY", "ALL", TRUE, <<>>),
       Listener(P_8080, L_host, "IPV6ONLY", "HTTP", FALSE, L_uri) >>

\* vsOptions of one listener
ListenerOptions(l) ==
    << IF l.bindHost = <<>> THEN L_star ELSE l.bindHost >>
    \o (IF l.addr \in { "IPV6ONLY", "ALL" } THEN << O_IPv6 >> ELSE << >>)
    \o (IF l.addr \in { "IPV4ONLY", "ALL" } THEN << O_IPv4 >> ELSE << >>)
    \o (IF l.accept \in { "ALL", "IRC" } THEN << O_IRC >> ELSE << >>)
    \o (IF l.accept \in { "ALL", "HTTP" }
        THEN << O_WEB >> \o (IF l.uriPrefix # <<>> THEN << l.uriPrefix \o <<"/">> >>
                             ELSE << >>)
        ELSE << >>)

\* bMatch of one listener
ListenerMatches(l, sFilter) ==
    \/ WildCmp(l.port, TrimPrefix_n(sFilter, <<"+">>))
    \/ \E i \in 1..Len(ListenerOptions(l)) : Equals(ListenerOptions(l)[i], sFilter)

\* the cell "Port" of one listener
PortCell(l) == IF l.ssl THEN <<"+">> \o l.port ELSE l.port

\* GlobalCmds "ListPorts [filter]": the loop returns at the first listener the
\* filter does not match, before the table is sent
ListPortsCmd(st, p, tgt, sc, sArgs) ==
    LET sFilter == Token(sArgs, 0)
        bMatch(l) == sFilter = <<>> \/ ListenerMatches(l, sFilter)
    IN IF \E i \in 1..Len(Listeners) : ~bMatch(Listeners[i])
       THEN PutLine(st, tgt, "No matches for", sFilter, <<>>)
       ELSE PutTable(st, tgt, [i \in 1..Len(Listeners) |-> PortCell(Listeners[i])])

CmdExec(st, p, tgt, sc, cmd, sArgs) ==
    IF cmd = W_Broadcast THEN BroadcastCmd(st, p, tgt, sc, sArgs)
    ELSE IF cmd = W_DelUser THEN DelUserCmd(st, p, tgt, sc, sArgs)
    ELSE IF cmd = W_ListPorts THEN ListPortsCmd(st, p, tgt, sc, sArgs)
    ELSE IF cmd = W_Rehash THEN RehashCmd(st, p, tgt, sc, sArgs)
    ELSE IF cmd = W_LoadMod THEN OnLoadModCommand(st, p, tgt, sc, sArgs)
    ELSE IF cmd = W_ReloadMod THEN OnReloadModCommand(st, p, tgt, sc, sArgs)
    ELSE IF cmd = W_UnloadMod THEN OnUnloadModCommand(st, p, tgt, sc, sArgs)
    ELSE IF cmd = W_Restart THEN RestartCmd(st, p, tgt, sc, sArgs)
    ELSE IF cmd = W_SaveConfig THEN SaveConfigCmd(st, p, tgt, sc, sArgs)
    ELSE IF cmd = W_Shutdown THEN ShutdownCmd(st, p, tgt, sc, sArgs)
    ELSE IF cmd = W_AddNetwork THEN AddNetworkCmd(st, p, tgt, sc, sArgs)
    ELSE IF cmd = W_DelNetwork THEN DelNetworkCmd(st, p, tgt, sc, sArgs)
    ELSE IF cmd = W_ListNetworks THEN ListNetworksCmd(st, p, tgt, sc, sArgs)
    ELSE TrafficCmd(st, p, tgt, sc, sArgs)

(***************************************************************************)
(* Verb handlers.  line is sLine as its tokens: the verb, then arguments.  *)
(***************************************************************************)
\* the lines of one variable: Var.get(pObject).Split("\n", vsValues, false)
PutValue(st, p, tgt, sc, name) ==
    LET got == Called(st, "get", sc, name)
        vsValues == SplitOn(VarGet(st, p, sc, name), "\n")
        emit[i \in 0..Len(vsValues)] ==
            IF i = 0 THEN got ELSE PutLine(emit[i - 1], tgt, "=", name, vsValues[i])
    IN IF vsValues = <<>> THEN PutLine(got, tgt, "=", name, <<>>)
       ELSE emit[Len(vsValues)]

\* one pass of a loop: the body runs on the state the passes before it left
After(prev, Body(_)) == CHOOSE r \in { Body(v) : v \in { prev } } : TRUE

AnyMatch(vVars, sVar) == \E i \in 1..Len(vVars) : WildCmp(vVars[i].name, sVar)

\* the commands of a scope and the reserved verbs, in the order of the
\* std::map FilterCmdTable fills (sorted by syntax: A.., D.., Get, Help, ...)
HelpEntries(vCmds) == vCmds \o << W_Get, W_Help, W_List, W_Reset, W_Set >>

Reserved == { W_Get, W_Help, W_List, W_Reset, W_Set }

\* FilterCmdTable that matches the commands by the glob rule alone
FilterCmdTable_GlobOnly(vCmds, sFilter) ==
    SelectSeq(HelpEntries(vCmds), LAMBDA c : sFilter = <<>> \/ WildCmp(c, sFilter))

FilterCmdTable(vCmds, sFilter) ==
    SelectSeq(HelpEntries(vCmds),
              LAMBDA c : \/ sFilter = <<>>
                         \/ WildCmp(c, sFilter)
                         \/ (c \notin Reserved /\ StartsWith(c, sFilter)))

OnHelpCommand(st, tgt, line, vCmds) ==
    LET sFilter == Token(line, 1)
        Table == FilterCmdTable(vCmds, sFilter)
    IN IF Table # <<>> THEN PutTable(st, tgt, Table)
       ELSE PutLine(st, tgt, "No matches for", sFilter, <<>>)

\* VarTypes[Var.type]
TypeName(type) ==
    IF type = "Boolean" THEN <<"B","o","o","l","e","a","n">>
    ELSE IF type = "Integer" THEN <<"I","n","t","e","g","e","r">>
    ELSE IF type = "List" THEN <<"L","i","s","t">>
    ELSE <<"S","t","r","i","n","g">>

\* FilterVarTable that does not compare the filter with the type names
FilterVarTable_NamesOnly(vVars, sFilter) ==
    LET hit == SelectSeq(vVars,
                 LAMBDA v : \/ sFilter = <<>>
                            \/ StartsWith(v.name, sFilter)
                            \/ WildCmp(v.name, sFilter))
    IN [i \in 1..Len(hit) |-> hit[i].name]

FilterVarTable(vVars, sFilter) ==
    LET hit == SelectSeq(vVars,
                 LAMBDA v : \/ sFilter = <<>>
                            \/ Equals(TypeName(v.type), sFilter)
                            \/ StartsWith(v.name, sFilter)
                            \/ WildCmp(v.name, sFilter))
    IN [i \in 1..Len(hit) |-> hit[i].name]

OnListCommand(st, tgt, line, vVars) ==
    LET Table == FilterVarTable(vVars, Token(line, 1))
    IN IF Table # <<>> THEN PutTable(st, tgt, Table)
       ELSE PutError(st, tgt, "unknown variable")

\* OnGetCommand that stops at the first variable that matches
OnGetCommand_FirstMatchOnly(st, p, tgt, sc, line, vVars) ==
    LET sVar == Token(line, 1)
        hit == SelectSeq(vVars, LAMBDA v : WildCmp(v.name, sVar))
    IN IF sVar = <<>> THEN PutUsage(st, tgt, "Get <variable>")
       ELSE IF hit # <<>> THEN PutValue(st, p, tgt, sc, hit[1].name)
       ELSE PutError(st, tgt, "unknown variable")

OnGetCommand(st, p, tgt, sc, line, vVars) ==
    LET sVar == Token(line, 1)
        loop[i \in 0..Len(vVars)] ==
            IF i = 0 THEN st
            ELSE IF WildCmp(vVars[i].name, sVar)
                 THEN After(loop[i - 1], LAMBDA v : PutValue(v, p, tgt, sc, vVars[i].name))
                 ELSE loop[i - 1]
    IN IF sVar = <<>> THEN PutUsage(st, tgt, "Get <variable>")
       ELSE IF AnyMatch(vVars, sVar) THEN loop[Len(vVars)]
       ELSE PutError(loop[Len(vVars)], tgt, "unknown variable")

\* SetOne that shows the value whether the setter succeeded or not
SetOne_EchoAlways(st, p, tgt, sc, name, sVal) ==
    LET r == VarSet(Called(st, "set", sc, name), p, tgt, sc, name, sVal)
    IN PutValue(r.st, p, tgt, sc, name)

\* one pass of the loop body of OnSetCommand
SetOne(st, p, tgt, sc, name, sVal) ==
    LET r == VarSet(Called(st, "set", sc, name), p, tgt, sc, name, sVal)
    IN IF r.ok THEN PutValue(r.st, p, tgt, sc, name) ELSE r.st

\* OnSetCommand that gives up at the first setter that fails
OnSetCommand_StopAtFailure(st, p, tgt, sc, line, vVars) ==
    LET sVar == Token(line, 1)
        sVal == TokenRest(line, 2)
        loop[i \in 0..Len(vVars)] ==
            IF i = 0 THEN [st |-> st, stop |-> FALSE]
            ELSE IF WildCmp(vVars[i].name, sVar) /\ ~loop[i - 1].stop
                 THEN LET r == VarSet(Called(loop[i - 1].st, "set", sc, vVars[i].name),
                                      p, tgt, sc, vVars[i].name, sVal)
                      IN IF r.ok
                         THEN [st |-> PutValue(r.st, p, tgt, sc, vVars[i].name),
                               stop |-> FALSE]
                         ELSE [st |-> r.st, stop |-> TRUE]
                 ELSE loop[i - 1]
    IN IF sVar = <<>> \/ sVal = <<>> THEN PutUsage(st, tgt, "Set <variable> <value>")
       ELSE IF \E i \in 1..Len(vVars) : WildCmp(vVars[i].name, sVar)
       THEN loop[Len(vVars)].st
       ELSE PutError(st, tgt, "unknown variable")

OnSetCommand(st, p, tgt, sc, line, vVars) ==
    LET sVar == Token(line, 1)
        sVal == TokenRest(line, 2)
        loop[i \in 0..Len(vVars)] ==
            IF i = 0 THEN st
            ELSE IF WildCmp(vVars[i].name, sVar)
                 THEN After(loop[i - 1], LAMBDA v : SetOne(v, p, tgt, sc, vVars[i].name, sVal))
                 ELSE loop[i - 1]
    IN IF sVar = <<>> \/ sVal = <<>> THEN PutUsage(st, tgt, "Set <variable> <value>")
       ELSE IF AnyMatch(vVars, sVar) THEN loop[Len(vVars)]
       ELSE PutError(loop[Len(vVars)], tgt, "unknown variable")

\* one pass of the loop body of OnResetCommand
ResetOne(st, p, tgt, sc, v) ==
    IF ~v.hasReset THEN PutError(st, tgt, "reset not supported")
    ELSE LET r == VarReset(Called(st, "reset", sc, v.name), p, tgt, sc, v.name)
         IN IF r.ok THEN PutValue(r.st, p, tgt, sc, v.name) ELSE r.st

OnResetCommand(st, p, tgt, sc, line, vVars) ==
    LET sVar == Token(line, 1)
        loop[i \in 0..Len(vVars)] ==
            IF i = 0 THEN st
            ELSE IF WildCmp(vVars[i].name, sVar)
                 THEN After(loop[i - 1], LAMBDA v : ResetOne(v, p, tgt, sc, vVars[i]))
                 ELSE loop[i - 1]
    IN IF sVar = <<>> THEN PutUsage(st, tgt, "Reset <variable>")
       ELSE IF AnyMatch(vVars, sVar) THEN loop[Len(vVars)]
       ELSE PutError(loop[Len(vVars)], tgt, "unknown variable")

\* OnExecCommand that compares the command names case-sensitively
OnExecCommand_CaseSensitive(st, p, tgt, sc, line, vCmds) ==
    LET sCmd == Token(line, 0)
        sArgs == SubSeq(line, 2, Len(line))
    IN IF \E i \in 1..Len(vCmds) : vCmds[i] = sCmd
       THEN LET k == CHOOSE i \in 1..Len(vCmds) : vCmds[i] = sCmd
            IN CmdExec(Called(st, "exec", sc, vCmds[k]), p, tgt, sc, vCmds[k], sArgs)
       ELSE PutError(st, tgt, "unknown command")

OnExecCommand(st, p, tgt, sc, line, vCmds) ==
    LET sCmd == Token(line, 0)
        sArgs == SubSeq(line, 2, Len(line))
    IN IF \E i \in 1..Len(vCmds) : Equals(vCmds[i], sCmd)
       THEN LET k == CHOOSE i \in 1..Len(vCmds) :
                        /\ Equals(vCmds[i], sCmd)
                        /\ \A j \in 1..(i - 1) : ~Equals(vCmds[j], sCmd)
            IN CmdExec(Called(st, "exec", sc, vCmds[k]), p, tgt, sc, vCmds[k], sArgs)
       ELSE PutError(st, tgt, "unknown command")

\* the verb switch with the handlers of Get and Reset exchanged
VerbSwitch_GetResets(st, p, tgt, sc, line) ==
    LET sCmd == Token(line, 0) IN
    IF Equals(sCmd, W_Help) THEN OnHelpCommand(st, tgt, line, CmdsOf(sc))
    ELSE IF Equals(sCmd, W_List) THEN OnListCommand(st, tgt, line, VarsOf(sc))
    ELSE IF Equals(sCmd, W_Get) THEN OnResetCommand(st, p, tgt, sc, line, VarsOf(sc))
    ELSE IF Equals(sCmd, W_Set) THEN OnSetCommand(st, p, tgt, sc, line, VarsOf(sc))
    ELSE IF Equals(sCmd, W_Reset) THEN OnGetCommand(st, p, tgt, sc, line, VarsOf(sc))
    ELSE OnExecCommand(st, p, tgt, sc, line, CmdsOf(sc))

\* the verb switch shared by OnUserCommand, OnNetworkCommand, OnChanCommand
VerbSwitch(st, p, tgt, sc, line) ==
    LET sCmd == Token(line, 0) IN
    IF Equals(sCmd, W_Help) THEN OnHelpCommand(st, tgt, line, CmdsOf(sc))
    ELSE IF Equals(sCmd, W_List) THEN OnListCommand(st, tgt, line, VarsOf(sc))
    ELSE IF Equals(sCmd, W_Get) THEN OnGetCommand(st, p, tgt, sc, line, VarsOf(sc))
    ELSE IF Equals(sCmd, W_Set) THEN OnSetCommand(st, p, tgt, sc, line, VarsOf(sc))
    ELSE IF Equals(sCmd, W_Reset) THEN OnResetCommand(st, p, tgt, sc, line, VarsOf(sc))
    ELSE OnExecCommand(st, p, tgt, sc, line, CmdsOf(sc))

(***************************************************************************)
(* Scope handlers: the ownership gate, then the verb switch                *)
(***************************************************************************)
OnUserCommand(st, p, tgt, sc, line) ==
    IF sc.user # p /\ ~IsAdmin(st, p) THEN PutError(st, tgt, "access denied")
    ELSE VerbSwitch(st, p, tgt, sc, line)

OnNetworkCommand(st, p, tgt, sc, line) ==
    IF sc.user # p /\ ~IsAdmin(st, p) THEN PutError(st, tgt, "access denied")
    ELSE VerbSwitch(st, p, tgt, sc, line)

\* OnChanCommand without the ownership gate
OnChanCommand_NoGate(st, p, tgt, sc, line) == VerbSwitch(st, p, tgt, sc, line)

OnChanCommand(st, p, tgt, sc, line) ==
    IF sc.user # p /\ ~IsAdmin(st, p) THEN PutError(st, tgt, "access denied")
    ELSE VerbSwitch(st, p, tgt, sc, line)

(***************************************************************************)
(* Lines the clients send.  A line is [cmd, target, rest]: the IRC command,*)
(* its first parameter and the tokens of the trailing text.                *)
(***************************************************************************)
Join2(a, b) == a \o <<"/">> \o b

Join3(a, b, c) == a \o <<"/">> \o b \o <<"/">> \o c

Tokens1 == { K_user, K_network, N_alice, N_bob, N_freenode, N_efnet,
             C_znc, C_dev, C_nope, C_sub, N_nobody, <<>> }

Tokens2 == { Join2(a, b) : a \in { N_alice, N_bob, N_freenode, N_nobody },
                           b \in { N_freenode, N_efnet, C_znc, C_dev, C_nope } }

Tokens3 == { Join3(a, b, c) : a \in { N_alice, N_nobody },
                              b \in { N_freenode, N_nobody },
                              c \in { C_znc, C_nope } }
           \cup { Join3(N_bob, N_efnet, C_znc) }

TokensOdd == { N_alice \o <<"/">>, <<"/">> \o N_alice,
               N_alice \o <<"/","/">> \o N_freenode,
               Join2(N_alice, Join3(N_freenode, C_znc, C_dev)) }

Tokens == Tokens1 \cup Tokens2 \cup Tokens3 \cup TokensOdd

DefaultPrefix == <<"*","*">>

BangPrefix == <<"*","!">>

Targets ==
    { DefaultPrefix \o t : t \in Tokens }
    \cup { BangPrefix \o t : t \in { N_alice, K_user, C_znc, Join2(N_alice, C_nope) } }
    \cup { <<"*">> \o L_status, <<"*">> \o N_alice, C_znc, N_alice }

Msg(cmd, target, rest) == [cmd |-> cmd, target |-> target, rest |-> rest]

DirectoryRests ==
    { << W_AddNetwork, N_efnet >>, << W_AddNetwork, N_ircnet >>,
      << W_DelNetwork, N_efnet >>, << W_DelNetwork, N_ircnet >> }

InfixRests == { << W_Set, V_AdminInfix, L_bang >>, << W_Reset, V_AdminInfix >> }

AdminRests == { << W_Set, V_Admin, L_true >>, << W_Reset, V_Admin >> }

\* the lines principal p sends while the addresses are explored: a read of
\* every target, and from alice the commands that change her networks, her
\* infix and her admin flag
AddressLines(p) ==
    { Msg(W_PRIVMSG, t, << W_Get, L_star >>) : t \in Targets }
    \cup { Msg(c, DefaultPrefix \o N_alice, << W_Get, V_Admin >>) : c \in { W_ZNC, W_NOTICE } }
    \cup (IF p = N_alice
          THEN { Msg(W_PRIVMSG, pfx \o K_user, r) :
                    pfx \in { DefaultPrefix, BangPrefix },
                    r \in DirectoryRests \cup InfixRests \cup AdminRests }
          ELSE {})

OwnerRests ==
    { << L_help >>, << W_Help, W_Bogus >>, << W_List >>, << W_Get >>,
      << W_Get, V_Key >>, << W_Get, V_Admin >>,
      << W_Set, V_Admin, L_true >>, << W_Set, V_Admin, L_false >>, << W_Reset, V_Admin >>,
      << W_Set, V_BindHost, L_host >>, << W_Reset, V_BindHost >>,
      << W_Set, V_DCCBindHost, L_host >>, << W_Reset, V_DCCBindHost >>,
      << W_Set, L_anyBindHost, L_host >>,
      << W_Set, V_DenySetBindHost, L_true >>, << W_Reset, V_DenySetBindHost >>,
      << W_DelNetwork, N_efnet >>, << L_addnetwork, N_efnet >>, << W_Bogus >>, << >> }

ForeignRests == OwnerRests \cup InfixRests
                \cup { << W_Set, V_Key, L_host >>, << W_Reset, V_Key >>,
                       << W_AddNetwork, N_efnet >>, << W_DelNetwork, N_freenode >> }

\* the targets that address the scopes of alice
AliceTargets ==
    { DefaultPrefix \o t : t \in { K_user, N_alice, Join2(N_alice, N_freenode),
                                   Join3(N_alice, N_freenode, C_znc) } }

ForeignTargets ==
    { DefaultPrefix \o t :
        t \in { N_alice, N_bob, Join2(N_alice, N_freenode), Join2(N_bob, N_efnet),
                Join3(N_alice, N_freenode, C_znc), Join3(N_bob, N_efnet, C_znc) } }

\* the lines principal p sends while the verbs are explored: alice and the
\* admin bob work on the scopes of alice, every other user tries every verb
\* on the scopes of alice and bob
VerbLines(p) ==
    IF p = N_alice
    THEN { Msg(W_PRIVMSG, t, r) : t \in AliceTargets, r \in OwnerRests }
         \cup { Msg(W_PRIVMSG, t, << W_Get, L_star >>) : t \in ForeignTargets }
    ELSE IF p = N_bob
    THEN { Msg(W_PRIVMSG, t, r) : t \in AliceTargets \ { DefaultPrefix \o K_user },
                                  r \in OwnerRests }
    ELSE { Msg(W_PRIVMSG, t, r) : t \in ForeignTargets, r \in ForeignRests }

\* the lines that work on the List variables of a user scope
ListRests ==
    { << W_Get, V_Allow >>, << W_Set, V_Allow, L_a >>, << W_Set, V_Allow, L_b >>,
      << W_Set, V_Allow, L_b, L_a >>, << W_Reset, V_Allow >>,
      << W_Get, V_CTCPReply >>, << W_Set, V_CTCPReply, L_VERSION, L_x >>,
      << W_Set, V_CTCPReply, L_version, L_y >>, << W_Set, V_CTCPReply, L_PING, L_x, L_y >>,
      << W_Set, V_CTCPReply, L_VERSION >>, << W_Reset, V_CTCPReply >>,
      << W_Get, L_anyC >>, << W_Get, L_anyc >>, << W_Get >>, << W_Get, W_Bogus >>,
      << W_List >>, << W_List, L_integer >>, << W_List, TypeName("List") >>,
      << W_List, L_anyc >>, << W_List, W_Bogus >>,
      << W_Help >>, << W_Help, L_Se >>, << W_Help, L_Add >>, << W_Help, L_anyD >>,
      << W_Help, L_help >>, << W_Help, W_Bogus >> }

\* the lines that work on the List variable of the global scope
GlobalListRests ==
    { << W_Get, V_Motd >>, << W_Set, V_Motd, L_a >>, << W_Set, V_Motd, L_b >>,
      << W_Reset, V_Motd >>, << W_Help >>, << W_Help, W_Bogus >>, << W_List >> }

\* the lines that work on the scalar variables of a user scope
ValueRests ==
    { << W_Get, V_ChanBufferSize >>, << W_Set, V_ChanBufferSize, L_40 >>,
      << W_Set, V_ChanBufferSize, L_999999 >>,
      << W_Reset, V_ChanBufferSize >>,
      << W_Get, V_Password >>, << W_Set, V_Password, L_secret >>,
      << W_Reset, V_Password >>, << W_Reset, L_anyC >>,
      << W_Set, L_anyC, L_600, L_x >>, << W_Set, L_anyD, L_on >>,
      << W_Get, L_star >>, << W_Set, V_Password >>, << W_Reset >> }

\* the lines that work on the scalar variable of the global scope
GlobalValueRests ==
    { << W_Get, V_MaxBufferSize >>, << W_Set, V_MaxBufferSize, L_045 >>,
      << W_Reset, V_MaxBufferSize >>, << W_Bogus >> }

\* GetNetwork(): the network of the client session, if it has one
SessionNetworks(us, p) == DOMAIN us[p].nets \cup { NoNetwork }

TotalNetworks(us) ==
    LET count[S \in SUBSET DOMAIN us] ==
            IF S = {} THEN 0
            ELSE LET u == CHOOSE x \in S : TRUE
                 IN NetworkCount(us, u) + count[S \ {u}]
    IN count[DOMAIN us]

(***************************************************************************)
(* State                                                                   *)
(***************************************************************************)
NoInput == [p |-> <<>>, cn |-> NoNetwork, line |-> Msg(<<>>, <<>>, <<>>), mod |-> ""]

UserRecord(admin, nets) ==
    [admin |-> admin, denyLoadMod |-> FALSE, denySetBindHost |-> FALSE,
     mods |-> {}, bindHost |-> <<>>,
     dccBindHost |-> <<>>, maxNetworks |-> 2, nets |-> nets,
     allow |-> {}, ctcp |-> EmptyFn, chanBufferSize |-> DefaultChanBufferSize,
     pass |-> SaltedHash(<<"p","w">>, "s")]

\* CZNC as constructed
GlobalRecord ==
    [maxBufferSize |-> DefaultMaxBufferSize, motd |-> <<>>,
     skin |-> <<>>, statusPrefix |-> <<"*">>, mods |-> {}]

Network(chans) == [bindHost |-> <<>>, chans |-> chans, mods |-> {}]

\* the users of the configuration the host starts with
InitUsers ==
    (N_alice :> UserRecord(FALSE,
                   (N_freenode :> Network((C_znc :> <<>>) @@ (N_efnet :> <<>>)
                                          @@ (C_sub :> <<>>)))))
    @@ (N_bob :> UserRecord(TRUE,
                   (N_alice :> Network((C_dev :> <<>>)))
                   @@ (N_efnet :> Network((C_znc :> <<"k">>)))))
    @@ (N_user :> UserRecord(FALSE, EmptyFn))
    @@ (N_network :> UserRecord(FALSE, EmptyFn))

Init ==
    /\ users = InitUsers
    /\ infix = [u \in { N_alice, N_bob, N_user, N_network } |-> <<>>]
    /\ znc = GlobalRecord
    /\ pc = "idle"
    /\ inp = NoInput
    /\ before = [users |-> users, infix |-> infix, znc |-> znc]
    /\ scope = NoScope
    /\ out = <<>>
    /\ calls = <<>>
    /\ ret = "NONE"

(***************************************************************************)
(* CAdminMod::OnUserRaw                                                    *)
(***************************************************************************)
\* the scope handler entered for a resolved scope, or the resolution error
Dispatch(st, p, tgt, sc, rest) ==
    IF sc.kind = "User" THEN OnUserCommand(st, p, tgt, sc, rest)
    ELSE IF sc.kind = "Network" THEN OnNetworkCommand(st, p, tgt, sc, rest)
    ELSE IF sc.kind = "Channel" THEN OnChanCommand(st, p, tgt, sc, rest)
    ELSE IF sc.kind = "Error" THEN PutError(st, tgt, sc.msg)
    ELSE st

\* whether the line is a PRIVMSG or ZNC line whose target carries the prefix
Routed(ix, p, line) ==
    /\ Equals(line.cmd, W_ZNC) \/ Equals(line.cmd, W_PRIVMSG)
    /\ StartsWith(line.target, GetStatusPrefix(p) \o GetInfix(ix, p))

\* sTarget after TrimPrefix
Stripped(ix, p, line) == TrimPrefix(line.target, GetStatusPrefix(p) \o GetInfix(ix, p))

\* OnUserRaw that consumes every line
ReturnOf_AlwaysHalt(sc) == "HALT"

\* EModRet of OnUserRaw
ReturnOf(sc) == IF sc.kind = "None" THEN "CONTINUE" ELSE "HALT"

\* GetModName()
ModName == <<"a","d","m","i","n">>

\* m_sTarget as an earlier dispatch of the module instance left it: empty as
\* constructed, or the target of an earlier line (here one that addressed
\* **nobody).  The member outlives the dispatch; the handlers assign it
\* before they send, so its value between lines is an input of each handler.
Remembered == { <<>>, <<"*">> \o N_nobody }

\* OnUserRaw that keeps a target it remembers
NewTarget_KeepRemembered(m, bRouted, sNew) == IF m # <<>> THEN m ELSE sNew

\* m_sTarget after OnUserRaw: assigned when the line is routed, else as it was
NewTarget(m, bRouted, sNew) == IF bRouted THEN sNew ELSE m

\* OnModCommand that leaves m_sTarget as it was
ModTarget_Keep(m) == m

\* m_sTarget after the first statement of OnModCommand
ModTarget(m) == ModName

\* sTgt of PutLine called without a target: m_sTarget, or the module name
ReplyTargetOf(m) == IF m = <<>> THEN ModName ELSE m

\* the body of OnUserRaw run in the state (us, ix, zn) with m in m_sTarget
UserRaw(us, ix, zn, m, sSalt, p, cn, line) ==
    LET st0 == [users |-> us, infix |-> ix, znc |-> zn, salt |-> sSalt,
                out |-> <<>>, calls |-> <<>>]
        sTarget == Stripped(ix, p, line)
        m_sTarget == NewTarget(m, Routed(ix, p, line), GetInfix(ix, p) \o sTarget)
        sc == IF Routed(ix, p, line) THEN Resolve(us, p, cn, sTarget) ELSE NoScope
    IN [st |-> Dispatch(st0, p, ReplyTargetOf(m_sTarget), sc, line.rest), sc |-> sc]

OnUserRaw(p, cn, line) ==
    \E sSalt \in SaltsFor(line.rest), m \in Remembered :
    /\ pc = "idle"
    /\ Equals(Token(line.rest, 0), W_AddNetwork) => TotalNetworks(users) < MaxTotalNetworks
    /\ \E r \in { UserRaw(users, infix, znc, m, sSalt, p, cn, line) } :
       LET st == r.st
           sc == r.sc
       IN
       /\ users' = st.users
       /\ infix' = st.infix
       /\ znc' = st.znc
       /\ out' = st.out
       /\ calls' = st.calls
       /\ scope' = sc
       /\ ret' = ReturnOf(sc)
       /\ inp' = [p |-> p, cn |-> cn, line |-> line, mod |-> "admin"]
       /\ before' = [users |-> users, infix |-> infix, znc |-> znc]
       /\ pc' = "done"

(***************************************************************************)
(* CAdminMod::OnModCommand: a line sent to the query of the module itself  *)
(***************************************************************************)

\* the lines of the introduction OnModCommand sends after an unfiltered Help
HelpTextLines == 23

RECURSIVE PutHelpText(_, _, _, _)
PutHelpText(st, tgt, sPfx, n) ==
    IF n = 0 THEN st
    ELSE PutLine(PutHelpText(st, tgt, sPfx, n - 1), tgt, "help text", <<>>, sPfx)

\* the Help branch of OnModCommand
OnModHelp(st, p, tgt, line) ==
    LET sFilter == Token(line, 1)
        Table == FilterCmdTable(GlobalCmds, sFilter)
        listed == IF Table # <<>> THEN PutTable(st, tgt, Table)
                  ELSE IF sFilter # <<>>
                       THEN PutLine(st, tgt, "No matches for", sFilter, <<>>)
                       ELSE st
    IN IF sFilter = <<>>
       THEN PutHelpText(listed, tgt, GetStatusPrefix(p) \o GetInfix(st.infix, p),
                        HelpTextLines)
       ELSE listed

\* OnModCommand without the admin gate
ModCommand_NoGate(st, p, tgt, line) ==
    LET sCmd == Token(line, 0) IN
    IF Equals(sCmd, W_Help) THEN OnModHelp(st, p, tgt, line)
    ELSE IF Equals(sCmd, W_List) THEN OnListCommand(st, tgt, line, GlobalVars)
    ELSE IF Equals(sCmd, W_Get) THEN OnGetCommand(st, p, tgt, GlobalScope, line, GlobalVars)
    ELSE IF Equals(sCmd, W_Set) THEN OnSetCommand(st, p, tgt, GlobalScope, line, GlobalVars)
    ELSE IF Equals(sCmd, W_Reset)
    THEN OnResetCommand(st, p, tgt, GlobalScope, line, GlobalVars)
    ELSE OnExecCommand(st, p, tgt, GlobalScope, line, GlobalCmds)

\* OnModCommand whose gate denies Set and Reset alone
ModCommand_GateSetOnly(st, p, tgt, line) ==
    LET sCmd == Token(line, 0) IN
    IF ~IsAdmin(st, p) /\ (Equals(sCmd, W_Set) \/ Equals(sCmd, W_Reset))
    THEN PutError(st, tgt, "access denied.")
    ELSE ModCommand_NoGate(st, p, tgt, line)

\* the body of OnModCommand
ModCommand(st, p, tgt, line) ==
    LET sCmd == Token(line, 0) IN
    IF ~IsAdmin(st, p) /\ ~Equals(sCmd, W_Help) /\ ~Equals(sCmd, W_Get)
                       /\ ~Equals(sCmd, W_List)
    THEN PutError(st, tgt, "access denied.")
    ELSE IF Equals(sCmd, W_Help) THEN OnModHelp(st, p, tgt, line)
    ELSE IF Equals(sCmd, W_List) THEN OnListCommand(st, tgt, line, GlobalVars)
    ELSE IF Equals(sCmd, W_Get) THEN OnGetCommand(st, p, tgt, GlobalScope, line, GlobalVars)
    ELSE IF Equals(sCmd, W_Set) THEN OnSetCommand(st, p, tgt, GlobalScope, line, GlobalVars)
    ELSE IF Equals(sCmd, W_Reset)
    THEN OnResetCommand(st, p, tgt, GlobalScope, line, GlobalVars)
    ELSE OnExecCommand(st, p, tgt, GlobalScope, line, GlobalCmds)

\* what CZNC::WriteConfig or CZNC::RehashConfig may return when the line makes
\* a command call it
WriteResults(rest) ==
    IF \E c \in { W_Rehash, W_Restart, W_SaveConfig, W_Shutdown } : Equals(Token(rest, 0), c)
    THEN BOOLEAN ELSE { TRUE }

\* the body of OnModCommand run in the state (us, ix, zn) with m in m_sTarget
ModRaw(us, ix, zn, m, sSalt, bWrite, p, rest) ==
    LET st0 == [users |-> us, infix |-> ix, znc |-> zn, salt |-> sSalt,
                out |-> <<>>, calls |-> <<>>, writeOk |-> bWrite]
    IN ModCommand(st0, p, ReplyTargetOf(ModTarget(m)), rest)

\* the CException that left the handler, if one did
Thrown(st) == SelectSeq(st.calls, LAMBDA c : c.op = "throw")

OnModCommand(p, rest) ==
    \E sSalt \in SaltsFor(rest), bWrite \in WriteResults(rest) :
    \E m \in Remembered :
    /\ pc = "idle"
    /\ (Equals(Token(rest, 0), W_Set) /\ WildCmp(V_Motd, Token(rest, 1)))
          => Len(znc.motd) < MaxMotd
    /\ \E st \in { ModRaw(users, infix, znc, m, sSalt, bWrite, p, rest) } :
       /\ users' = st.users
       /\ infix' = st.infix
       /\ znc' = st.znc
       /\ out' = st.out
       /\ calls' = st.calls
       /\ scope' = GlobalScope
       /\ ret' = IF Thrown(st) = <<>> THEN "VOID" ELSE "THROW"
       /\ inp' = [p |-> p, cn |-> NoNetwork,
                  line |-> Msg(W_PRIVMSG, GetStatusPrefix(p) \o ModName, rest),
                  mod |-> "admin"]
       /\ before' = [users |-> users, infix |-> infix, znc |-> znc]
       /\ pc' = IF Thrown(st) = <<>> THEN "done" ELSE "exited"

\* the host takes the replies and the return value and reads the next line
NextLine ==
    /\ pc = "done"
    /\ pc' = "idle"
    /\ inp' = NoInput
    /\ scope' = NoScope
    /\ out' = <<>>
    /\ calls' = <<>>
    /\ ret' = "NONE"
    /\ before' = [users |-> users, infix |-> infix, znc |-> znc]
    /\ UNCHANGED <<users, infix, znc>>

\* addresses: every user sends its address lines from every session
Next ==
    \/ \E p \in DOMAIN users : \E cn \in SessionNetworks(users, p) :
          \E line \in AddressLines(p) : OnUserRaw(p, cn, line)
    \/ NextLine

Spec == Init /\ [][Next]_vars

VerbPrincipals == { N_alice, N_bob, N_user }

\* verbs: alice, bob and the user named "user" send their verb lines
NextVerbs ==
    \/ \E p \in VerbPrincipals : \E line \in VerbLines(p) :
          OnUserRaw(p, IF p = N_alice THEN N_freenode ELSE NoNetwork, line)
    \/ NextLine

SpecVerbs == Init /\ [][NextVerbs]_vars

\* the target of the lines of p that work on the user scope of alice
AliceScopeTarget(p) == DefaultPrefix \o (IF p = N_alice THEN K_user ELSE N_alice)

ValuePrincipals == { N_alice, N_bob }

\* lists: alice and the admin bob work on the List variables of alice and on
\* the message of the day
NextLists ==
    \/ \E p \in ValuePrincipals : \E r \in ListRests :
          OnUserRaw(p, NoNetwork, Msg(W_PRIVMSG, AliceScopeTarget(p), r))
    \/ \E p \in ValuePrincipals : \E r \in GlobalListRests : OnModCommand(p, r)
    \/ NextLine

SpecLists == Init /\ [][NextLists]_vars

\* the lines that produce tables on a user scope, and those that add and
\* delete its networks
TableRests ==
    { << W_Traffic >>, << W_ListNetworks >>, << W_ListNetworks, L_star >>,
      << W_ListNetworks, W_Bogus >>, << W_Help >>, << W_Help, W_Bogus >>,
      << W_List >>, << W_List, W_Bogus >>,
      << W_AddNetwork, N_efnet >>, << W_AddNetwork, N_freenode >>,
      << W_DelNetwork, N_efnet >>, << W_DelNetwork, N_freenode >> }

GlobalTableRests == { << W_Help >>, << W_Help, W_Bogus >>, << W_List >>, << W_List, W_Bogus >> }

\* tables: alice and the admin bob list the networks and the traffic of
\* alice while her networks come and go
NextTables ==
    \/ \E p \in ValuePrincipals : \E r \in TableRests :
          OnUserRaw(p, NoNetwork, Msg(W_PRIVMSG, AliceScopeTarget(p), r))
    \/ \E p \in ValuePrincipals : \E r \in GlobalTableRests : OnModCommand(p, r)
    \/ NextLine

SpecTables == Init /\ [][NextTables]_vars

\* the lines that stop the process, save the configuration or broadcast,
\* and a few that do none of that
ControlRests ==
    { << W_Restart >>, << W_Restart, L_force >>, << W_Restart, L_bye >>,
      << W_Restart, L_FORCE, L_bye >>, << W_Shutdown >>, << W_Shutdown, L_force, L_bye >>,
      << L_shutdown >>, << W_SaveConfig >>, << W_Broadcast, L_bye >>, << W_Broadcast >>,
      << W_Help >>, << W_Bogus >>, << W_Set, V_Motd, L_a >>, << W_Reset, V_Motd >>,
      << W_Get, V_Motd >>, << W_List >> }

\* lines for the user scope of alice, the commands of the global scope among them
ScopedControlRests ==
    { << W_Restart >>, << W_Shutdown, L_force >>, << W_Set, V_Admin, L_true >>,
      << W_Reset, V_Admin >>, << W_Get, V_Admin >>, << W_Traffic >> }

\* control: alice and the admin bob send the commands that stop the process
\* to the module and to the user scope of alice
NextControl ==
    \/ \E p \in ValuePrincipals : \E r \in ControlRests : OnModCommand(p, r)
    \/ \E p \in ValuePrincipals : \E r \in ScopedControlRests :
          OnUserRaw(p, NoNetwork, Msg(W_PRIVMSG, AliceScopeTarget(p), r))
    \/ NextLine

SpecControl == Init /\ [][NextControl]_vars

L_rehash == << "r","e","h","a","s","h" >>

F_66any == << "6","6","*" >>

F_plus6697 == << "+","6","6","9","7" >>

F_ipv6 == << "i","p","v","6" >>

\* the lines for the module that work on the directory of users, on the
\* configuration file and on the listeners
HostRests ==
    { << W_DelUser, N_alice >>, << W_DelUser, N_bob >>, << W_DelUser, N_user >>,
      << W_DelUser, N_nobody >>, << W_DelUser >>,
      << W_Rehash >>, << L_rehash >>,
      << W_ListPorts >>, << W_ListPorts, P_6667 >>, << W_ListPorts, F_66any >>,
      << W_ListPorts, F_plus6697 >>, << W_ListPorts, O_WEB >>, << W_ListPorts, O_IPv4 >>,
      << W_ListPorts, F_ipv6 >>, << W_ListPorts, L_host >>, << W_ListPorts, L_star >>,
      << W_ListPorts, W_Bogus >> }

\* host: alice and the admin bob, as long as each is in the directory, send
\* the host commands to the module and change the admin flag of alice
NextHost ==
    \/ \E p \in ValuePrincipals \cap DOMAIN users : \E r \in HostRests : OnModCommand(p, r)
    \/ \E p \in ValuePrincipals \cap DOMAIN users : \E r \in AdminRests :
          OnUserRaw(p, NoNetwork, Msg(W_PRIVMSG, AliceScopeTarget(p), r))
    \/ NextLine

SpecHost == Init /\ [][NextHost]_vars

\* the lines that set and reset one variable of a user scope
FrameRests ==
    InfixRests
    \cup { << W_Set, V_BindHost, L_host >>, << W_Reset, V_BindHost >>,
           << W_Get, L_star >>, << W_Set, W_Bogus, L_x >> }

\* the lines that set and reset the skin and the status prefix of the host
GlobalFrameRests ==
    { << W_Set, V_StatusPrefix, L_bang >>, << W_Reset, V_StatusPrefix >>,
      << W_Set, V_Skin, L_x >>, << W_Reset, V_Skin >>,
      << W_Get, V_StatusPrefix >>, << W_Get, L_star >> }

\* frame: alice and the admin bob set and reset variables of the user scope
\* of alice, through the default infix and through "!", and of the host
NextFrame ==
    \/ \E p \in ValuePrincipals : \E r \in FrameRests :
          \E pfx \in { DefaultPrefix, BangPrefix } :
             OnUserRaw(p, NoNetwork,
                       Msg(W_PRIVMSG, pfx \o (IF p = N_alice THEN K_user ELSE N_alice), r))
    \/ \E p \in ValuePrincipals : \E r \in GlobalFrameRests : OnModCommand(p, r)
    \/ NextLine

SpecFrame == Init /\ [][NextFrame]_vars

\* the state in which the admin has set DenyLoadMod of alice
InitRestricted ==
    /\ users = [InitUsers EXCEPT ![N_alice].denyLoadMod = TRUE]
    /\ infix = [u \in DOMAIN InitUsers |-> <<>>]
    /\ znc = GlobalRecord
    /\ pc = "idle"
    /\ inp = NoInput
    /\ before = [users |-> users, infix |-> infix, znc |-> znc]
    /\ scope = NoScope
    /\ out = <<>>
    /\ calls = <<>>
    /\ ret = "NONE"

\* the lines that load modules
ModRests ==
    { << W_LoadMod, M_log >>, << W_ReloadMod, M_log >>, << W_UnloadMod, M_log >>,
      << L_loadmod, M_log >>, << W_LoadMod >>, << W_LoadMod, W_Bogus >> }

\* the lines alice sends to her user scope: modules, networks, and the
\* variables that restrict her
RestrictedRests ==
    ModRests
    \cup { << W_Set, V_DenyLoadMod, L_false >>, << W_Reset, V_DenyLoadMod >>,
           << W_Get, V_DenyLoadMod >>,
           << W_Set, V_Admin, L_true >>, << W_Reset, V_Admin >>,
           << W_AddNetwork, N_efnet >>, << W_AddNetwork, N_ircnet >>,
           << W_DelNetwork, N_efnet >>,
           << W_Set, V_MaxNetworks, L_3 >>, << W_Reset, V_MaxNetworks >>,
           << W_Get, V_MaxNetworks >> }

\* restricted: alice alone sends lines to her user scope, to her network
\* freenode and to the module
NextRestricted ==
    \/ \E r \in RestrictedRests :
          OnUserRaw(N_alice, N_freenode, Msg(W_PRIVMSG, DefaultPrefix \o K_user, r))
    \/ \E r \in ModRests :
          OnUserRaw(N_alice, N_freenode, Msg(W_PRIVMSG, DefaultPrefix \o N_freenode, r))
    \/ \E r \in ModRests : OnModCommand(N_alice, r)
    \/ NextLine

SpecRestricted == InitRestricted /\ [][NextRestricted]_vars

\* values: alice and the admin bob work on the scalar variables of alice and
\* on the global buffer limit
NextValues ==
    \/ \E p \in ValuePrincipals : \E r \in ValueRests :
          OnUserRaw(p, NoNetwork, Msg(W_PRIVMSG, AliceScopeTarget(p), r))
    \/ \E p \in ValuePrincipals : \E r \in GlobalValueRests : OnModCommand(p, r)
    \/ NextLine

SpecValues == Init /\ [][NextValues]_vars

(***************************************************************************)
(* The revision CSettingsMod (settings.cpp): every variable carries flags  *)
(* and Set and Reset ask CanModify before they run its closure             *)
(***************************************************************************)
\* enum VarFlag
NoFlags == 0

RequiresAdmin == 1

RequiresSetBindHost == 2

\* Var.flags & flag, for a flag that is one bit
HasFlag(flags, flag) == (flags \div flag) % 2 = 1

\* CanModify with the test of DenySetBindHost left out
CanModify_AdminOnly(us, p, flags) ==
    ~(~us[p].admin /\ HasFlag(flags, RequiresAdmin))

\* CanModify(GetUser(), Var)
CanModify(us, p, flags) ==
    IF ~us[p].admin /\ HasFlag(flags, RequiresAdmin) THEN FALSE
    ELSE IF ~us[p].admin /\ us[p].denySetBindHost /\ HasFlag(flags, RequiresSetBindHost)
    THEN FALSE
    ELSE TRUE

SVar(name, type, flags, hasReset) ==
    [name |-> name, type |-> type, flags |-> flags, hasReset |-> hasReset]

\* the entries of UserVars of CSettingsMod that the lines below address
CSettingsMod_UserVars ==
    << SVar(V_Admin, "Boolean", RequiresAdmin, TRUE),
       SVar(V_BindHost, "String", RequiresSetBindHost, FALSE),
       SVar(V_DCCBindHost, "String", RequiresAdmin, FALSE),
       SVar(V_DenySetBindHost, "Boolean", RequiresAdmin, TRUE) >>

\* CZNC::Get().GetBindHosts(): the configuration lists no bind hosts
GetBindHosts == <<>>

Failed(st, sError) == [ok |-> FALSE, st |-> st, sError |-> sError]

Succeeded(st) == [ok |-> TRUE, st |-> st, sError |-> ""]

\* Var.setter(pTarget, sVal, sError)
CSettingsMod_VarSet(st, owner, name, sVal) ==
    IF name = V_Admin
    THEN Succeeded([st EXCEPT !.users[owner].admin = ToBool(sVal)])
    ELSE IF name = V_BindHost
    THEN IF Equals(sVal, st.users[owner].bindHost)
         THEN Failed(st, "This bind host is already set!")
         ELSE IF /\ ~st.users[owner].admin
                 /\ GetBindHosts # <<>>
                 /\ ~\E i \in 1..Len(GetBindHosts) : Equals(sVal, GetBindHosts[i])
         THEN Failed(st, "The bind host is not available.")
         ELSE Succeeded([st EXCEPT !.users[owner].bindHost = sVal])
    ELSE IF name = V_DCCBindHost
    THEN Succeeded([st EXCEPT !.users[owner].dccBindHost = sVal])
    ELSE Succeeded([st EXCEPT !.users[owner].denySetBindHost = ToBool(sVal)])

\* Var.resetter(pTarget, sError), for the entries that have one
CSettingsMod_VarReset(st, owner, name) ==
    IF name = V_Admin
    THEN Succeeded([st EXCEPT !.users[owner].admin = FALSE])
    ELSE Succeeded([st EXCEPT !.users[owner].denySetBindHost = FALSE])

CSettingsMod_OnGetCommand(st, p, tgt, sc, line, vVars) ==
    LET sVar == Token(line, 1)
        loop[i \in 0..Len(vVars)] ==
            IF i = 0 THEN st
            ELSE IF WildCmp(vVars[i].name, sVar)
                 THEN After(loop[i - 1], LAMBDA v : PutValue(v, p, tgt, sc, vVars[i].name))
                 ELSE loop[i - 1]
    IN IF sVar = <<>> THEN PutUsage(st, tgt, "Get <variable>")
       ELSE IF AnyMatch(vVars, sVar) THEN loop[Len(vVars)]
       ELSE PutLine(loop[Len(vVars)], tgt, "Unknown variable!", <<>>, <<>>)

\* one pass of the loop body of CSettingsMod::OnSetCommand
CSettingsMod_SetOne(st, p, tgt, sc, v, sVal) ==
    IF ~CanModify(st.users, p, v.flags)
    THEN PutError(Called(st, "deny", sc, v.name), tgt, "access denied")
    ELSE LET r == CSettingsMod_VarSet(Called(Called(st, "allow", sc, v.name),
                                             "set", sc, v.name),
                                      sc.user, v.name, sVal)
         IN IF r.ok THEN PutValue(r.st, p, tgt, sc, v.name)
            ELSE PutLine(r.st, tgt, r.sError, <<>>, <<>>)

CSettingsMod_OnSetCommand(st, p, tgt, sc, line, vVars) ==
    LET sVar == Token(line, 1)
        sVal == TokenRest(line, 2)
        loop[i \in 0..Len(vVars)] ==
            IF i = 0 THEN st
            ELSE IF WildCmp(vVars[i].name, sVar)
                 THEN After(loop[i - 1], LAMBDA v : CSettingsMod_SetOne(v, p, tgt, sc, vVars[i], sVal))
                 ELSE loop[i - 1]
    IN IF sVar = <<>> \/ sVal = <<>> THEN PutUsage(st, tgt, "Set <variable> <value>")
       ELSE IF AnyMatch(vVars, sVar) THEN loop[Len(vVars)]
       ELSE PutLine(loop[Len(vVars)], tgt, "Unknown variable!", <<>>, <<>>)

\* CSettingsMod_ResetOne that passes over an entry without a resetter in
\* silence
CSettingsMod_ResetOne_SkipMissing(st, p, tgt, sc, v) ==
    IF ~CanModify(st.users, p, v.flags)
    THEN PutError(Called(st, "deny", sc, v.name), tgt, "access denied")
    ELSE IF ~v.hasReset
    THEN Called(st, "allow", sc, v.name)
    ELSE LET r == CSettingsMod_VarReset(Called(Called(st, "allow", sc, v.name),
                                               "reset", sc, v.name),
                                        sc.user, v.name)
         IN IF r.ok THEN PutValue(r.st, p, tgt, sc, v.name)
            ELSE PutLine(r.st, tgt, r.sError, <<>>, <<>>)

\* one pass of the loop body of CSettingsMod::OnResetCommand
CSettingsMod_ResetOne(st, p, tgt, sc, v) ==
    IF ~CanModify(st.users, p, v.flags)
    THEN PutError(Called(st, "deny", sc, v.name), tgt, "access denied")
    ELSE IF ~v.hasReset
    THEN PutError(Called(st, "allow", sc, v.name), tgt, "reset not supported!")
    ELSE LET r == CSettingsMod_VarReset(Called(Called(st, "allow", sc, v.name),
                                               "reset", sc, v.name),
                                        sc.user, v.name)
         IN IF r.ok THEN PutValue(r.st, p, tgt, sc, v.name)
            ELSE PutLine(r.st, tgt, r.sError, <<>>, <<>>)

CSettingsMod_OnResetCommand(st, p, tgt, sc, line, vVars) ==
    LET sVar == Token(line, 1)
        loop[i \in 0..Len(vVars)] ==
            IF i = 0 THEN st
            ELSE IF WildCmp(vVars[i].name, sVar)
                 THEN After(loop[i - 1], LAMBDA v : CSettingsMod_ResetOne(v, p, tgt, sc, vVars[i]))
                 ELSE loop[i - 1]
    IN IF sVar = <<>> THEN PutUsage(st, tgt, "Reset <variable>")
       ELSE IF AnyMatch(vVars, sVar) THEN loop[Len(vVars)]
       ELSE PutError(loop[Len(vVars)], tgt, "unknown variable!")

\* CSettingsMod::FilterCmdTable: the rows of Get, List and Set
CSettingsMod_FilterCmdTable(sFilter) ==
    SelectSeq(<< W_Get, W_List, W_Set >>,
              LAMBDA c : sFilter = <<>> \/ Equals(sFilter, c))

CSettingsMod_OnHelpCommand(st, tgt, line) ==
    LET Table == CSettingsMod_FilterCmdTable(Token(line, 1))
    IN IF Table # <<>> THEN PutTable(st, tgt, Table)
       ELSE PutLine(st, tgt, "Unknown command!", <<>>, <<>>)

CSettingsMod_OnListCommand(st, tgt, line, vVars) ==
    LET Table == FilterVarTable(vVars, Token(line, 1))
    IN IF Table # <<>> THEN PutTable(st, tgt, Table)
       ELSE PutLine(st, tgt, "Unknown variable!", <<>>, <<>>)

\* the body of CSettingsMod::OnUserCommand(pUser, sTgt, sLine)
CSettingsMod_UserCommand(st, p, tgt, sc, line) ==
    LET sCmd == Token(line, 0) IN
    IF sc.user # p /\ ~IsAdmin(st, p) THEN PutError(st, tgt, "access denied.")
    ELSE IF Equals(sCmd, W_Help) THEN CSettingsMod_OnHelpCommand(st, tgt, line)
    ELSE IF Equals(sCmd, W_List)
    THEN CSettingsMod_OnListCommand(st, tgt, line, CSettingsMod_UserVars)
    ELSE IF Equals(sCmd, W_Get)
    THEN CSettingsMod_OnGetCommand(st, p, tgt, sc, line, CSettingsMod_UserVars)
    ELSE IF Equals(sCmd, W_Set)
    THEN CSettingsMod_OnSetCommand(st, p, tgt, sc, line, CSettingsMod_UserVars)
    ELSE IF Equals(sCmd, W_Reset)
    THEN CSettingsMod_OnResetCommand(st, p, tgt, sc, line, CSettingsMod_UserVars)
    ELSE PutLine(st, tgt, "Unknown command!", <<>>, <<>>)

\* OnUserRaw of CSettingsMod found the user pUser for the target and calls
\* OnUserCommand(pUser, sPfx + sTgt, sRest)
CSettingsMod_OnUserCommand(p, pUser, rest) ==
    LET st0 == [users |-> users, infix |-> infix, znc |-> znc, salt |-> "s",
                out |-> <<>>, calls |-> <<>>]
        sTgt == GetStatusPrefix(p) \o pUser
        st == CSettingsMod_UserCommand(st0, p, sTgt, UserScope(pUser), rest)
    IN /\ pc = "idle"
       /\ users' = st.users
       /\ out' = st.out
       /\ calls' = st.calls
       /\ scope' = UserScope(pUser)
       /\ ret' = "HALT"
       /\ inp' = [p |-> p, cn |-> NoNetwork,
                  line |-> Msg(W_PRIVMSG, GetStatusPrefix(p) \o sTgt, rest),
                  mod |-> "settings"]
       /\ before' = [users |-> users, infix |-> infix, znc |-> znc]
       /\ pc' = "done"
       /\ UNCHANGED <<infix, znc>>

\* the lines that work on the flagged variables of a user scope
SettingsRests ==
    { << W_Get, L_star >>, << W_Get >>, << W_Get, W_Bogus >>,
      << W_Set, V_BindHost, L_host >>, << W_Set, V_BindHost, L_x >>,
      << W_Reset, V_BindHost >>,
      << W_Set, V_DCCBindHost, L_host >>, << W_Reset, V_DCCBindHost >>,
      << W_Set, V_DenySetBindHost, L_true >>, << W_Reset, V_DenySetBindHost >>,
      << W_Set, V_Admin, L_true >>, << W_Reset, V_Admin >>,
      << W_Set, L_anyBindHost, L_host >>, << W_Reset, L_anyD >>,
      << W_Set, W_Bogus, L_x >>, << W_Set >>, << W_Reset >>, << W_Reset, W_Bogus >>,
      << W_Help >>, << W_Help, W_Bogus >>, << W_List >>, << W_List, W_Bogus >>,
      << W_Bogus >> }

\* settings: alice and bob send their lines to their own user and to the
\* other one
NextSettings ==
    \/ \E p \in ValuePrincipals : \E pUser \in ValuePrincipals : \E r \in SettingsRests :
          CSettingsMod_OnUserCommand(p, pUser, r)
    \/ NextLine

SpecSettings == Init /\ [][NextSettings]_vars

(***************************************************************************)
(* Vocabulary of the properties: the line that was answered                *)
(***************************************************************************)
Answered == pc = "done"

\* the line was for this module: PRIVMSG or ZNC, target with the prefix
IsRouted == Routed(before.infix, inp.p, inp.line)

\* the address token as typed, after the prefix
Tok == Stripped(before.infix, inp.p, inp.line)

Parts == Split(Tok)

Verb == Token(inp.line.rest, 0)

Pattern == Token(inp.line.rest, 1)

Value == TokenRest(inp.line.rest, 2)

\* the query the replies of this dispatch go to
ReplyTarget == GetInfix(before.infix, inp.p) \o Tok

ErrorReply(msg) == ReplyLine(ReplyTarget, "Error: ", msg, <<>>, <<>>)

HostUnchanged == users = before.users /\ infix = before.infix /\ znc = before.znc

ResolvedToScope == scope.kind \in { "User", "Network", "Channel" }

PrincipalWasAdmin == before.users[inp.p].admin

Denied == \E i \in 1..Len(out) : out[i] = ErrorReply("access denied")

IsSet == Equals(Verb, W_Set) /\ Pattern # <<>> /\ Value # <<>>

IsReset == Equals(Verb, W_Reset) /\ Pattern # <<>>

(***************************************************************************)
(* C1..C3: the scope gate and the permissions of Admin and BindHost        *)
(***************************************************************************)
\* C1: when the address resolves to a User, Network or Channel scope owned
\* by another user and the principal is not admin, the dispatch sends the one
\* access-denied reply and does nothing else, whatever the verb: no registry
\* closure is invoked and the host state is as before.
C1_ForeignScopeIsDenied ==
    (Answered /\ ResolvedToScope /\ scope.user # inp.p /\ ~PrincipalWasAdmin)
        => /\ out = << ErrorReply("access denied") >>
           /\ calls = <<>>
           /\ HostUnchanged
           /\ ret = "HALT"

C1_Witness ==
    /\ Answered /\ scope.kind = "Channel" /\ scope.user # inp.p /\ ~PrincipalWasAdmin
    /\ IsSet
    /\ out = << ErrorReply("access denied") >>

\* C2 (as claimed): a Set of Admin by a principal that is not admin, on any
\* user scope, is answered with access denied and leaves the admin flag of
\* the target user as it was.
C2_NonAdminCannotSetAdmin ==
    (Answered /\ scope.kind = "User" /\ ~PrincipalWasAdmin
              /\ IsSet /\ WildCmp(V_Admin, Pattern))
        => /\ Denied
           /\ users[scope.user].admin = before.users[scope.user].admin

\* C3 (as claimed): a principal that is not admin and has DenySetBindHost set
\* changes no BindHost or DCCBindHost of a user or network scope, by Set or
\* by Reset: both are answered with access denied.
C3_DeniedPrincipalCannotChangeBindHost ==
    (Answered /\ scope.kind \in { "User", "Network" }
              /\ ~PrincipalWasAdmin /\ before.users[inp.p].denySetBindHost
              /\ (IsSet \/ IsReset)
              /\ (WildCmp(V_BindHost, Pattern)
                    \/ (scope.kind = "User" /\ WildCmp(V_DCCBindHost, Pattern))))
        => /\ Denied
           /\ \A u \in DOMAIN users :
                 /\ users[u].bindHost = before.users[u].bindHost
                 /\ users[u].dccBindHost = before.users[u].dccBindHost
                 /\ \A n \in DOMAIN users[u].nets \cap DOMAIN before.users[u].nets :
                       users[u].nets[n].bindHost = before.users[u].nets[n].bindHost

(***************************************************************************)
(* Vocabulary of the resolver properties, read off the directory as it was *)
(* when the line arrived                                                   *)
(***************************************************************************)
NetsOf(u) == DOMAIN before.users[u].nets

ChansOf(u, n) == DOMAIN before.users[u].nets[n].chans

HasCurrent == inp.cn # NoNetwork

IsKeywordUser == Equals(Tok, K_user)

IsKeywordNetwork == Equals(Tok, K_network)

NamesUser == Tok \in DOMAIN before.users

NamesOwnNetwork == \E n \in NetsOf(inp.p) : Equals(n, Tok)

NamesCurrentChan == HasCurrent /\ \E c \in ChansOf(inp.p, inp.cn) : Equals(c, Tok)

NoSlash == \A i \in 1..Len(Tok) : Tok[i] # "/"

\* keywords and the three single-token lookups all miss
SingleMiss ==
    /\ ~IsKeywordUser /\ ~NamesUser
    /\ ~(IsKeywordNetwork /\ HasCurrent) /\ ~NamesOwnNetwork
    /\ ~NamesCurrentChan

ErrorOnly(msg) ==
    /\ scope = ErrorScope(msg)
    /\ out = << ErrorReply(msg) >>
    /\ calls = <<>>
    /\ HostUnchanged
    /\ ret = "HALT"

NotApplicable ==
    /\ scope = NoScope
    /\ ret = "CONTINUE"
    /\ out = <<>>
    /\ calls = <<>>
    /\ HostUnchanged

(***************************************************************************)
(* C4..C6: single-token addresses                                          *)
(***************************************************************************)
\* C4: a single token is tried as user name, then as own network, then as
\* channel of the current network, and the first hit wins: a token naming a
\* user and an own network gives the User scope, a token naming an own
\* network and a channel of the current network gives the Network scope, and
\* the slash-split reading is taken only when all three lookups miss.
C4_FirstHitWins ==
    (Answered /\ IsRouted /\ ~IsKeywordUser /\ ~(IsKeywordNetwork /\ HasCurrent))
        => /\ NamesUser => scope = UserScope(Tok)
           /\ (~NamesUser /\ NamesOwnNetwork)
                 => /\ scope.kind = "Network" /\ scope.user = inp.p
                    /\ scope.net \in NetsOf(inp.p) /\ Equals(scope.net, Tok)
           /\ (~NamesUser /\ ~NamesOwnNetwork /\ NamesCurrentChan)
                 => /\ scope.kind = "Channel" /\ scope.user = inp.p
                    /\ scope.net = inp.cn
                    /\ scope.chan \in ChansOf(inp.p, inp.cn) /\ Equals(scope.chan, Tok)

\* the token names an own network and a channel of the current network
C4_Witness ==
    /\ Answered /\ IsRouted /\ ~NamesUser /\ NamesOwnNetwork /\ NamesCurrentChan
    /\ scope.kind = "Network" /\ Equals(scope.net, Tok)

\* C5 (as claimed): the token "user" gives the own User scope and the token
\* "network" gives the current Network scope, whatever the directory holds
\* under these names.
C5_KeywordsBeforeDirectory ==
    (Answered /\ IsRouted)
        => /\ IsKeywordUser => scope = UserScope(inp.p)
           /\ (IsKeywordNetwork /\ HasCurrent) => scope = NetworkScope(inp.p, inp.cn)

\* C6 (as claimed): with exactly one own network a bare channel name of that
\* network gives the Channel scope; with two or more own networks the same
\* bare name is answered as unknown or ambiguous.
C6_SecondNetworkMakesBareNameAmbiguous ==
    (Answered /\ IsRouted /\ HasCurrent /\ NoSlash /\ ~IsKeywordUser /\ ~IsKeywordNetwork
              /\ ~NamesUser /\ ~NamesOwnNetwork
              /\ \E n \in NetsOf(inp.p) : \E c \in ChansOf(inp.p, n) : Equals(c, Tok))
        => /\ Cardinality(NetsOf(inp.p)) = 1 => scope.kind = "Channel"
           /\ Cardinality(NetsOf(inp.p)) >= 2 => scope.kind = "Error"

\* C6 (amended): a bare name that is no keyword, user or own network gives
\* the Channel scope of the channel of that name on the current network of
\* the session, however many networks the user owns; without such a channel
\* (or without a current network) the line is not applicable: no reply, no
\* change, CONTINUE.
C6_BareNameIsChannelOfCurrentNetwork ==
    (Answered /\ IsRouted /\ NoSlash /\ ~IsKeywordUser /\ ~IsKeywordNetwork
              /\ ~NamesUser /\ ~NamesOwnNetwork)
        => IF NamesCurrentChan
           THEN /\ scope.kind = "Channel" /\ scope.user = inp.p /\ scope.net = inp.cn
                /\ scope.chan \in ChansOf(inp.p, inp.cn) /\ Equals(scope.chan, Tok)
                /\ ret = "HALT"
           ELSE NotApplicable

\* a bare channel name is resolved for a user with two networks
C6_Witness ==
    /\ Answered /\ IsRouted /\ NoSlash /\ ~NamesUser /\ ~NamesOwnNetwork
    /\ Cardinality(NetsOf(inp.p)) >= 2
    /\ NamesCurrentChan
    /\ scope.kind = "Channel" /\ Equals(scope.chan, Tok)

(***************************************************************************)
(* C7..C10: composite addresses and the result of OnUserRaw                *)
(***************************************************************************)
PartA == Parts[1]

PartB == Parts[2]

PartC == Parts[3]

\* the channel named b on the current network of the caller, addressed with
\* the caller's own user name
OwnChanHit(a, b) ==
    /\ a = inp.p /\ HasCurrent
    /\ \E c \in ChansOf(inp.p, inp.cn) : Equals(c, b)

\* the channel named b on the only network of user a
OnlyNetworkHit(a, b) ==
    /\ Cardinality(NetsOf(a)) = 1
    /\ \E n \in NetsOf(a) : \E c \in ChansOf(a, n) : Equals(c, b)

TwoPartsOfUser ==
    /\ Answered /\ IsRouted /\ SingleMiss
    /\ Len(Parts) = 2 /\ PartA \in DOMAIN before.users
    /\ ~\E n \in NetsOf(PartA) : Equals(n, PartB)

\* C7: for A/B with A a user and B no network of A, B is taken as a channel
\* of the current network (when A is the caller) or of the only network of
\* A, and never picked among several networks: in every other case the one
\* reply is the unknown-or-ambiguous error and no scope command runs.
C7_NeverGuessesAmongNetworks ==
    TwoPartsOfUser
        => /\ scope.kind \in { "Channel", "Error" }
           /\ scope.kind = "Channel"
                 => \/ /\ OwnChanHit(PartA, PartB)
                       /\ scope.user = inp.p /\ scope.net = inp.cn
                       /\ Equals(scope.chan, PartB)
                    \/ /\ OnlyNetworkHit(PartA, PartB)
                       /\ scope.user = PartA /\ scope.net \in NetsOf(PartA)
                       /\ scope.chan \in ChansOf(PartA, scope.net)
                       /\ Equals(scope.chan, PartB)
           /\ (~OwnChanHit(PartA, PartB) /\ ~OnlyNetworkHit(PartA, PartB))
                 => ErrorOnly("unknown (or ambiguous) network or channel")

\* the channel exists on one of the several networks of A
C7_Witness ==
    /\ TwoPartsOfUser
    /\ Cardinality(NetsOf(PartA)) >= 2
    /\ \E n \in NetsOf(PartA) : \E c \in ChansOf(PartA, n) : Equals(c, PartB)
    /\ ~OwnChanHit(PartA, PartB)
    /\ ErrorOnly("unknown (or ambiguous) network or channel")

TwoPartsOfNobody ==
    /\ Answered /\ IsRouted /\ SingleMiss
    /\ Len(Parts) = 2 /\ PartA \notin DOMAIN before.users
    /\ ~\E n \in NetsOf(inp.p) : Equals(n, PartA)

\* C8 (as claimed): A/B with A neither a user nor an own network is consumed
\* and answered with an error reply.
C8_UnknownFirstPartIsAnError ==
    TwoPartsOfNobody
        => /\ ret = "HALT"
           /\ Len(out) = 1 /\ out[1].prefix = "Error: "

\* C8 (amended): A/B with A neither a user nor an own network is not
\* applicable: the line is passed on (CONTINUE), no reply is sent and the
\* host state is unchanged.
C8_UnknownFirstPartIsPassedOn == TwoPartsOfNobody => NotApplicable

C8_Witness == TwoPartsOfNobody /\ Equals(PartA, N_nobody) /\ ret = "CONTINUE" /\ out = <<>>

ThreePartsOfUser ==
    /\ Answered /\ IsRouted /\ SingleMiss
    /\ Len(Parts) = 3 /\ PartA \in DOMAIN before.users

NetworkOfA == \E n \in NetsOf(PartA) : Equals(n, PartB)

ChanOfAB == \E n \in NetsOf(PartA) :
                /\ Equals(n, PartB)
                /\ \E c \in ChansOf(PartA, n) : Equals(c, PartC)

\* C9: A/B/C with A a user gives a Channel scope exactly when B is a network
\* of A and C a channel on it, and then that channel; a missing B is answered
\* with the unknown-network error, a missing C with the unknown-channel
\* error, and neither runs a scope command.
C9_ThreeParts ==
    ThreePartsOfUser
        => /\ ChanOfAB
                 => /\ scope.kind = "Channel" /\ scope.user = PartA
                    /\ scope.net \in NetsOf(PartA) /\ Equals(scope.net, PartB)
                    /\ scope.chan \in ChansOf(PartA, scope.net)
                    /\ Equals(scope.chan, PartC)
                    /\ ret = "HALT"
           /\ ~NetworkOfA => ErrorOnly("unknown network")
           /\ (NetworkOfA /\ ~ChanOfAB) => ErrorOnly("unknown channel")

C9_Witness ==
    /\ ThreePartsOfUser /\ NetworkOfA /\ ~ChanOfAB
    /\ ErrorOnly("unknown channel")

\* no reading of the resolver applies to the stripped token
NoInterpretation ==
    /\ SingleMiss
    /\ \/ Len(Parts) \notin { 2, 3 }
       \/ Len(Parts) = 2 /\ PartA \notin DOMAIN before.users
                         /\ ~\E n \in NetsOf(inp.p) : Equals(n, PartA)
       \/ Len(Parts) = 3 /\ PartA \notin DOMAIN before.users

\* C10: a line whose target lacks the prefix (status prefix and infix), or
\* whose token has no reading, is not applicable: CONTINUE, no reply, no
\* change of the host state; every other line is consumed (HALT).
C10_NotApplicableOrConsumed ==
    Answered
        => IF ~IsRouted \/ NoInterpretation
           THEN NotApplicable
           ELSE ret = "HALT" /\ scope.kind # "None"

\* the target carries the default prefix after the infix was changed
C10_Witness ==
    /\ Answered /\ ~IsRouted
    /\ Equals(inp.line.cmd, W_PRIVMSG)
    /\ before.infix[inp.p] = L_bang
    /\ StartsWith(inp.line.target, DefaultPrefix)
    /\ NotApplicable

(***************************************************************************)
(* Vocabulary of the verb properties: the dispatch reached the verb switch *)
(* of a scope with the registry of that scope                              *)
(***************************************************************************)
\* the scope gate was passed, or the line went to OnModCommand
ReachedVerb ==
    /\ Answered
    /\ \/ ResolvedToScope /\ (scope.user = inp.p \/ PrincipalWasAdmin)
       \/ scope.kind = "Global"
             /\ (PrincipalWasAdmin \/ Equals(Verb, W_Get) \/ Equals(Verb, W_List)
                                   \/ Equals(Verb, W_Help))

\* the query the replies of the dispatch go to
VerbTarget == IF scope.kind = "Global" THEN ModName ELSE ReplyTarget

\* the line was answered by the revision CSettingsMod
BySettings == inp.mod = "settings"

\* the registry the verb worked on
Registry == IF BySettings THEN CSettingsMod_UserVars ELSE VarsOf(scope)

\* the entries of the registry whose name matches the pattern, in its order
MatchingVars == SelectSeq(Registry, LAMBDA v : WildCmp(v.name, Pattern))

NamesOf(vs) == [i \in 1..Len(vs) |-> vs[i].name]

\* the names of the variables on which the closure op ran, in call order
CalledNames(op) ==
    LET cs == SelectSeq(calls, LAMBDA c : c.op = op)
    IN [i \in 1..Len(cs) |-> cs[i].name]

ErrorsOf(lines) == SelectSeq(lines, LAMBDA l : l.prefix = "Error: ")

\* the state the line was read in, as the closures see it
PreState(sSalt) ==
    [users |-> before.users, infix |-> before.infix, znc |-> before.znc,
     salt |-> sSalt, out |-> <<>>, calls |-> <<>>]

RECURSIVE SetEach(_, _)
\* every setter of vs applied in turn, each on what the one before left,
\* whether that one succeeded or failed
SetEach(st, vs) ==
    IF vs = <<>> THEN st
    ELSE SetEach(VarSet(st, inp.p, VerbTarget, scope, Head(vs).name, Value).st, Tail(vs))

SameHost(st) == users = st.users /\ infix = st.infix /\ znc = st.znc

(***************************************************************************)
(* C11..C14: the fan-out of Set and Reset                                  *)
(***************************************************************************)
\* C11: a Set whose pattern matches several variables runs the setter of
\* each match exactly once, in registry order; a setter that fails sends its
\* error, the setters after it still run and the values set before it stay.
C11_SetFanOutIsIndependent ==
    (ReachedVerb /\ IsSet)
        => /\ CalledNames("set") = NamesOf(MatchingVars)
           /\ \E sSalt \in Salts :
                 /\ SameHost(SetEach(PreState(sSalt), MatchingVars))
                 /\ ErrorsOf(out) = SetEach(PreState(sSalt), MatchingVars).out \o
                        (IF MatchingVars = <<>>
                         THEN << ReplyLine(VerbTarget, "Error: ", "unknown variable",
                                           <<>>, <<>>) >>
                         ELSE <<>>)

\* a setter fails and a later one succeeds
C11_Witness ==
    /\ ReachedVerb /\ IsSet /\ Len(MatchingVars) >= 2
    /\ Len(out) >= 2
    /\ out[1].prefix = "Error: " /\ out[Len(out)].msg = "="
    /\ users # before.users

\* the host state after the dispatch, as the getters see it
PostState ==
    [users |-> users, infix |-> infix, znc |-> znc, salt |-> "s",
     out |-> <<>>, calls |-> <<>>]

RECURSIVE OkEach(_, _)
\* whether the setter (for Set) or the resetter (for Reset) of each entry of
\* vs succeeded, each applied on what the one before left
OkEach(st, vs) ==
    IF vs = <<>> THEN <<>>
    ELSE LET v == Head(vs)
             r == IF IsSet THEN VarSet(st, inp.p, VerbTarget, scope, v.name, Value)
                  ELSE IF v.hasReset THEN VarReset(st, inp.p, VerbTarget, scope, v.name)
                  ELSE Done(FALSE, st)
         IN << r.ok >> \o OkEach(r.st, Tail(vs))

\* the values of the `name = value` lines sent for the variable name
ValueLinesOf(name) ==
    LET ls == SelectSeq(out, LAMBDA l : l.prefix = "" /\ l.msg = "=" /\ l.name = name)
    IN [i \in 1..Len(ls) |-> ls[i].value]

\* the values Get shows for the variable name in state st: its elements, or
\* one empty value
ShownBy(st, name) ==
    LET elems == SplitOn(VarGet(st, inp.p, scope, name), "\n")
    IN IF elems = <<>> THEN << <<>> >> ELSE elems

\* C12: after a successful Set or Reset of a variable the value lines sent
\* for it are the lines Get of that variable shows in the resulting state
\* (one per element, one empty line for an empty value); a failed Set or
\* Reset sends no value line for it.
C12_EchoIsGetOfResult ==
    (ReachedVerb /\ (IsSet \/ IsReset))
        => LET ok == OkEach(PreState("s"), MatchingVars)
           IN \A i \in 1..Len(MatchingVars) :
                 ValueLinesOf(MatchingVars[i].name) =
                     IF ok[i] THEN ShownBy(PostState, MatchingVars[i].name) ELSE <<>>

\* a Set of a list succeeds and two lines show the two elements
C12_Witness ==
    /\ ReachedVerb /\ IsSet /\ Len(MatchingVars) = 1
    /\ OkEach(PreState("s"), MatchingVars) = << TRUE >>
    /\ Len(ValueLinesOf(MatchingVars[1].name)) = 2
    /\ users # before.users

\* a Set that names ChanBufferSize with a number above the limit in force
SetsChanBufferSizeAboveLimit ==
    /\ ReachedVerb /\ scope.kind = "User" /\ IsSet
    /\ Equals(Pattern, V_ChanBufferSize)
    /\ ToUInt(Value) > before.znc.maxBufferSize

\* the reply is the one error that names the limit, and Get shows afterwards
\* what it showed before
RefusedNamingTheLimit ==
    /\ out = << ReplyLine(ReplyTarget, "Error: ", "exceeded limit", <<>>,
                          UIntStr(before.znc.maxBufferSize)) >>
    /\ ShownBy(PostState, V_ChanBufferSize) = ShownBy(PreState("s"), V_ChanBufferSize)
    /\ HostUnchanged

WithoutResetter == SelectSeq(MatchingVars, LAMBDA v : ~v.hasReset)

\* the per-variable gate lets the principal change the entry: CSettingsMod
\* asks CanModify, CAdminMod has no such gate
Authorized(v) == BySettings => CanModify(before.users, inp.p, v.flags)

RepliesOf(prefix, msg) ==
    SelectSeq(out, LAMBDA l : l = ReplyLine(VerbTarget, prefix, msg, <<>>, <<>>))

NotSupportedReplies ==
    RepliesOf("Error: ", IF BySettings THEN "reset not supported!"
                         ELSE "reset not supported")

UnknownVariableReplies ==
    RepliesOf("Error: ", IF BySettings THEN "unknown variable!" ELSE "unknown variable")

\* the entry is counted as a match, no value of it is shown, its resetter
\* is not called and Get shows what it showed before
MatchedAndUntouched(name) ==
    /\ UnknownVariableReplies = <<>>
    /\ ValueLinesOf(name) = <<>>
    /\ name \notin Range(CalledNames("reset"))
    /\ VarGet(PostState, inp.p, scope, name) = VarGet(PreState("s"), inp.p, scope, name)

\* C14 (as claimed): a Reset answers "reset not supported" once for every
\* matching variable that has no resetter, sends no unknown-variable error
\* for the command, shows no value of such a variable and leaves it as it
\* was, whoever the principal that reached the scope is.
C14_ResetWithoutResetter ==
    (ReachedVerb /\ IsReset /\ WithoutResetter # <<>>)
        => /\ Len(NotSupportedReplies) = Len(WithoutResetter)
           /\ \A i \in 1..Len(WithoutResetter) :
                 MatchedAndUntouched(WithoutResetter[i].name)

\* C14 (amended): a Reset answers "reset not supported" once for every
\* matching variable that has no resetter and that the per-variable gate
\* lets the principal change; for one the gate denies, the answer is access
\* denied instead.  Either way the variable counts as a match, no value of
\* it is shown and it is left as it was.
C14_ResetWithoutResetterPastGate ==
    (ReachedVerb /\ IsReset /\ WithoutResetter # <<>>)
        => /\ Len(NotSupportedReplies)
                 = Len(SelectSeq(WithoutResetter, Authorized))
           /\ Len(RepliesOf("Error: ", "access denied"))
                 >= Len(SelectSeq(WithoutResetter, LAMBDA v : ~Authorized(v)))
           /\ Len(out) = Len(MatchingVars)
           /\ \A i \in 1..Len(WithoutResetter) :
                 MatchedAndUntouched(WithoutResetter[i].name)

\* the admin bob resets the DCCBindHost that was set on the scope of alice
C14_Witness ==
    /\ ReachedVerb /\ IsReset /\ BySettings /\ Equals(Pattern, V_DCCBindHost)
    /\ inp.p # scope.user
    /\ before.users[scope.user].dccBindHost # <<>>
    /\ out = << ReplyLine(VerbTarget, "Error: ", "reset not supported!", <<>>, <<>>) >>
    /\ users = before.users

(***************************************************************************)
(* C15..C17: what Get shows after Set                                      *)
(***************************************************************************)
RECURSIVE DigitRun(_)
\* the decimal digits a text starts with
DigitRun(s) ==
    IF s = <<>> \/ s[1] \notin Digits THEN <<>> ELSE << s[1] >> \o DigitRun(Tail(s))

RECURSIVE NoLeadingZeros(_)
NoLeadingZeros(d) ==
    IF d = <<>> THEN << "0" >>
    ELSE IF d[1] = "0" /\ Len(d) > 1 THEN NoLeadingZeros(Tail(d)) ELSE d

\* the texts that mean false, in lower case
FalseWords == { <<"f","a","l","s","e">>, <<"n","o">>, <<"n">>, <<"o","f","f">> }

\* v as the type writes it: true or false for a Boolean, the number without
\* leading zeros for an Integer, v itself for a String
Canonical(type, v) ==
    IF type = "Boolean"
    THEN IF (\A i \in 1..Len(v) : v[i] = "0") \/ AsLower(v) \in FalseWords
         THEN <<"f","a","l","s","e">> ELSE <<"t","r","u","e">>
    ELSE IF type = "Integer" THEN NoLeadingZeros(DigitRun(v))
    ELSE v

\* the entries of the pattern whose setter accepted the value
AcceptedVars ==
    LET ok == OkEach(PreState("s"), MatchingVars)
    IN SelectSeq([i \in 1..Len(MatchingVars) |-> [v |-> MatchingVars[i], ok |-> ok[i]]],
                 LAMBDA e : e.ok)

TheVar == MatchingVars[1]

\* a Set or Reset of one List variable that succeeded
ListChanged(verb) ==
    /\ ReachedVerb /\ ~BySettings /\ verb
    /\ Len(MatchingVars) = 1 /\ TheVar.type = "List"
    /\ OkEach(PreState("s"), MatchingVars) = << TRUE >>

\* the elements Get showed before the line, none for the empty list
ElemsBefore == SplitOn(VarGet(PreState("s"), inp.p, scope, TheVar.name), "\n")

ElemsAfter == SplitOn(VarGet(PostState, inp.p, scope, TheVar.name), "\n")

\* the lines of a list that is kept in the order of the texts
Ascending(ls) == \A i \in 1..(Len(ls) - 1) : Less(ls[i], ls[i + 1])

\* the request of a CTCPReply line or value, as the map keys it
RequestOf(l) == AsUpper(Token(SplitOn(l, " "), 0))

\* Reset of a list empties it and Get shows the one empty line
ResetShowsEmpty ==
    ListChanged(IsReset)
        => /\ ElemsAfter = <<>>
           /\ ShownBy(PostState, TheVar.name) = << <<>> >>
           /\ ValueLinesOf(TheVar.name) = << <<>> >>

C17_SetOnlyAppends ==
    ListChanged(IsSet) => Range(ElemsBefore) \subseteq Range(ElemsAfter)

\* C17 (amended): a successful Set on Motd or Allow keeps every element the
\* list held; a successful Set on CTCPReply keeps the lines of every other
\* request, and the line of its own request is replaced when the value has a
\* reply and removed when the value is the request alone.
C17_SetKeepsOtherElements ==
    ListChanged(IsSet)
        => IF TheVar.name # V_CTCPReply
           THEN /\ Range(ElemsBefore) \subseteq Range(ElemsAfter)
                /\ Len(ElemsAfter) >= Len(ElemsBefore)
           ELSE LET own(l) == RequestOf(l) = RequestOf(Value)
                    hasReply == Len(SplitOn(Value, " ")) >= 2
                IN /\ { l \in Range(ElemsBefore) : ~own(l) }
                        = { l \in Range(ElemsAfter) : ~own(l) }
                   /\ IF hasReply
                      THEN \E l \in Range(ElemsAfter) :
                              /\ own(l)
                              /\ TokenRest(SplitOn(l, " "), 1)
                                    = TokenRest(SplitOn(Value, " "), 1)
                      ELSE /\ \E l \in Range(ElemsBefore) : own(l)
                           /\ ~\E l \in Range(ElemsAfter) : own(l)

\* the request alone removes its line and the line of PING stays
C17_Witness ==
    /\ ListChanged(IsSet) /\ TheVar.name = V_CTCPReply
    /\ Value = L_VERSION
    /\ Len(ElemsBefore) = 2 /\ Len(ElemsAfter) = 1
    /\ RequestOf(ElemsAfter[1]) = L_PING
    /\ ValueLinesOf(V_CTCPReply) = ElemsAfter

(***************************************************************************)
(* C18, C19: the permission gate                                           *)
(***************************************************************************)
\* every value the flags of a descriptor can take
AllFlags == 0 .. (RequiresAdmin + RequiresSetBindHost)

NeedsAdmin(flags) == flags \in { RequiresAdmin, RequiresAdmin + RequiresSetBindHost }

NeedsBindHostPolicy(flags) ==
    flags \in { RequiresSetBindHost, RequiresAdmin + RequiresSetBindHost }

\* the decision as the claim states it
GateDenies(isAdmin, deniesBindHost, flags) ==
    \/ ~isAdmin /\ NeedsAdmin(flags)
    \/ ~isAdmin /\ deniesBindHost /\ NeedsBindHostPolicy(flags)

\* the users with nothing but the two flags of each
FlagsOnly(us) ==
    [u \in DOMAIN us |-> [admin |-> us[u].admin,
                          denySetBindHost |-> us[u].denySetBindHost]]

\* the answers of the gate in a Set or Reset, one for every match, in order
GateAnswers ==
    LET cs == SelectSeq(calls, LAMBDA c : c.op \in { "allow", "deny" })
    IN [i \in 1..Len(cs) |-> [name |-> cs[i].name, allowed |-> cs[i].op = "allow"]]

\* C18: the gate is defined for every principal and every flags value, it
\* denies exactly when the principal is not admin and the flags require
\* admin, or the principal is not admin, is denied bind-host changes and the
\* flags require the bind-host policy (so never for a descriptor with no
\* flags); it reads the two flags of the principal and nothing else, and a
\* Set or Reset asks it once for every match and changes nothing the gate
\* denied.
C18_GateIsPureAndTotal ==
    /\ \A p \in DOMAIN users : \A flags \in AllFlags :
          /\ CanModify(users, p, flags) \in BOOLEAN
          /\ CanModify(users, p, flags)
                = ~GateDenies(users[p].admin, users[p].denySetBindHost, flags)
          /\ CanModify(FlagsOnly(users), p, flags) = CanModify(users, p, flags)
          /\ CanModify(users, p, NoFlags)
    /\ (ReachedVerb /\ BySettings /\ (IsSet \/ IsReset))
          => /\ GateAnswers =
                   [i \in 1..Len(MatchingVars) |->
                       [name |-> MatchingVars[i].name,
                        allowed |-> ~GateDenies(before.users[inp.p].admin,
                                                before.users[inp.p].denySetBindHost,
                                                MatchingVars[i].flags)]]
             /\ Len(RepliesOf("Error: ", "access denied"))
                   = Len(SelectSeq(GateAnswers, LAMBDA a : ~a.allowed))
             /\ \A i \in 1..Len(GateAnswers) :
                   ~GateAnswers[i].allowed
                      => /\ GateAnswers[i].name \notin Range(CalledNames("set"))
                         /\ GateAnswers[i].name \notin Range(CalledNames("reset"))
                         /\ VarGet(PostState, inp.p, scope, GateAnswers[i].name)
                               = VarGet(PreState("s"), inp.p, scope, GateAnswers[i].name)

\* alice, not admin and denied bind-host changes, sets *BindHost: the gate
\* denies BindHost by the policy flag and the other two by the admin flag
C18_Witness ==
    /\ ReachedVerb /\ BySettings /\ IsSet /\ Pattern = L_anyBindHost
    /\ ~PrincipalWasAdmin /\ before.users[inp.p].denySetBindHost
    /\ GateAnswers = << [name |-> V_BindHost, allowed |-> FALSE],
                        [name |-> V_DCCBindHost, allowed |-> FALSE],
                        [name |-> V_DenySetBindHost, allowed |-> FALSE] >>
    /\ users = before.users

\* a Set or Reset that names BindHost on a user or network scope
ChangesBindHost(verb) ==
    /\ ReachedVerb /\ scope.kind \in { "User", "Network" }
    /\ verb /\ Equals(Pattern, V_BindHost)

\* the decision by the flag of the user that owns the scope
PermittedByOwner == PrincipalWasAdmin \/ ~before.users[scope.user].denySetBindHost

\* the decision by the flag of the principal that sent the line
PermittedByPrincipal == PrincipalWasAdmin \/ ~before.users[inp.p].denySetBindHost

\* the bind host of the scope, before and after the line
BindHostOf(us) ==
    IF scope.kind = "User" THEN us[scope.user].bindHost
    ELSE us[scope.user].nets[scope.net].bindHost

\* the change was let through iff the flag of the owner permits it, and a
\* change that was not let through is answered access denied and not made
DecidedByOwner ==
    /\ PermittedByOwner = PermittedByPrincipal
    /\ (RepliesOf("Error: ", "access denied") = <<>>) = PermittedByOwner
    /\ ~PermittedByOwner => BindHostOf(users) = BindHostOf(before.users)

\* C19 (as claimed): whether a Set or Reset of BindHost on a user or network
\* scope is let through is decided by the DenySetBindHost flag of the user
\* that owns the scope, admin principals passing whatever the flag; past the
\* scope gate this is the decision the flag of the principal gives.
C19_OwnerFlagDecidesBindHost ==
    ChangesBindHost(IsSet \/ IsReset) => DecidedByOwner

(***************************************************************************)
(* C20: Get                                                                *)
(***************************************************************************)
\* the text is the pattern: letters compared without their case, * for any
\* run of characters at its end or alone
Globs(pattern, name) ==
    LET n == Len(pattern)
    IN IF n > 0 /\ pattern[n] = "*"
       THEN /\ Len(name) >= n - 1
            /\ AsLower(SubSeq(name, 1, n - 1)) = AsLower(SubSeq(pattern, 1, n - 1))
       ELSE AsLower(name) = AsLower(pattern)

RECURSIVE GetLines(_)
\* the `name = value` lines of the variables vs, in their order: one for
\* every element of the value, one with an empty value for an empty value
GetLines(vs) ==
    IF vs = <<>> THEN <<>>
    ELSE LET name == Head(vs).name
             elems == ShownBy(PreState("s"), name)
         IN [i \in 1..Len(elems) |-> ReplyLine(VerbTarget, "", "=", name, elems[i])]
            \o GetLines(Tail(vs))

IsGet == Equals(Verb, W_Get)

\* C20: Get with no argument sends one usage line and nothing else; Get with
\* a pattern sends, for every variable of the registry whose name matches the
\* pattern without regard to case, in registry order, one `name = value`
\* line per element of the value split at the newlines, or one `name = `
\* line for an empty value; when no variable matches it sends exactly one
\* unknown-variable error.  Get changes nothing.
C20_GetShowsEveryMatch ==
    (ReachedVerb /\ IsGet /\ ~BySettings)
        => /\ HostUnchanged
           /\ IF Pattern = <<>>
              THEN out = << ReplyLine(VerbTarget, "Usage: ", "Get <variable>", <<>>, <<>>) >>
              ELSE LET hits == SelectSeq(VarsOf(scope), LAMBDA v : Globs(Pattern, v.name))
                   IN /\ hits = MatchingVars
                      /\ IF hits = <<>>
                         THEN out = << ReplyLine(VerbTarget, "Error: ",
                                                 "unknown variable", <<>>, <<>>) >>
                         ELSE out = GetLines(hits)

\* Get c* shows the buffer size and the two CTCP replies of the user
C20_Witness ==
    /\ ReachedVerb /\ IsGet /\ Pattern = L_anyc
    /\ NamesOf(MatchingVars) = << V_ChanBufferSize, V_CTCPReply >>
    /\ Len(out) = 3
    /\ out[2].name = V_CTCPReply /\ out[3].name = V_CTCPReply
    /\ out[2].value # out[3].value

(***************************************************************************)
(* C21..C23: the verb switch, List and Help                                *)
(***************************************************************************)
ReservedVerbs == { W_Help, W_List, W_Get, W_Set, W_Reset }

IsReservedVerb == \E w \in ReservedVerbs : Equals(Verb, w)

\* the commands of the scope whose first syntax token is the verb, any case
MatchingCmds == SelectSeq(CmdsOf(scope), LAMBDA c : Equals(c, Verb))

ExecCalls == SelectSeq(calls, LAMBDA c : c.op = "exec")

ExecOf(cmd) ==
    [op |-> "exec", kind |-> scope.kind, user |-> scope.user, net |-> scope.net,
     chan |-> scope.chan, name |-> cmd]

UnknownCommand == ReplyLine(VerbTarget, "Error: ", "unknown command", <<>>, <<>>)

\* C21: past the ownership gate of a scope the verb takes exactly one path.
\* A reserved verb (Help, List, Get, Set, Reset, in any case) runs no custom
\* command and is never an unknown command; otherwise the first command of
\* the scope whose name equals the verb in any case is executed exactly
\* once and nothing else is called; when no command matches, the only reply
\* is one "unknown command" error and the host is unchanged.
C21_VerbTakesOnePath ==
    (ReachedVerb /\ ResolvedToScope /\ ~BySettings) =>
        IF IsReservedVerb
        THEN ExecCalls = <<>> /\ RepliesOf("Error: ", "unknown command") = <<>>
        ELSE IF MatchingCmds # <<>>
        THEN /\ calls = << ExecOf(MatchingCmds[1]) >>
             /\ RepliesOf("Error: ", "unknown command") = <<>>
        ELSE out = << UnknownCommand >> /\ calls = <<>> /\ HostUnchanged

\* a command typed in lower case was executed once and changed the user
C21_Witness ==
    /\ ReachedVerb /\ ResolvedToScope /\ ~BySettings
    /\ Verb = L_addnetwork
    /\ calls = << ExecOf(W_AddNetwork) >>
    /\ users # before.users

\* VarTypes
VarTypeNames == { TypeName(t) : t \in { "String", "Boolean", "Integer", "List" } }

\* the names in the rows of the table the dispatch sent, in the order sent
TableRows ==
    LET rs == SelectSeq(out, LAMBDA l : l.msg = "table row")
    IN [i \in 1..Len(rs) |-> rs[i].name]

IsList == Equals(Verb, W_List)

\* the filter is one of the type names, in any case
IsTypeFilter == \E t \in VarTypeNames : Equals(t, Pattern)

\* the filter is a stem followed by one star
IsStemFilter ==
    /\ Pattern # <<>>
    /\ Pattern[Len(Pattern)] = "*"
    /\ \A i \in 1..(Len(Pattern) - 1) : Pattern[i] \notin { "*", "?" }

Stem == SubSeq(Pattern, 1, Len(Pattern) - 1)

OfType == SelectSeq(Registry, LAMBDA v : AsLower(TypeName(v.type)) = AsLower(Pattern))

WithStem ==
    SelectSeq(Registry,
              LAMBDA v : /\ Len(Stem) <= Len(v.name)
                         /\ AsLower(SubSeq(v.name, 1, Len(Stem))) = AsLower(Stem))

\* the replies of a List that selected these names: the table, or the error
ListReplies(names) ==
    IF names # <<>> THEN PutTable(PreState("s"), VerbTarget, names).out
    ELSE << ReplyLine(VerbTarget, "Error: ", "unknown variable", <<>>, <<>>) >>

IsHelp == Equals(Verb, W_Help)

\* the filter is a prefix of the verb token, or matches it as a glob
ByPrefix(c) == StartsWith(c, Pattern)

ByGlob(c) == WildCmp(c, Pattern)

CmdSet == { CmdsOf(scope)[i] : i \in 1..Len(CmdsOf(scope)) }

NoMatches == ReplyLine(VerbTarget, "", "No matches for", Pattern, <<>>)

\* the table of Help lists exactly these entries, or nothing was selected
\* and the only reply is the no-matches line
HelpLists(S) ==
    IF S # {}
    THEN /\ { TableRows[i] : i \in 1..Len(TableRows) } = S
         /\ Len(TableRows) = Cardinality(S)
         /\ \A i \in 1..Len(out) : out[i] # NoMatches
    ELSE out = << NoMatches >>

\* C23: Help lists exactly the entries, reserved verbs and custom commands
\* alike, whose verb token the filter matches by prefix or by the glob rule,
\* every entry for an empty filter, and the single no-matches line when
\* nothing is selected.
C23_HelpMatchesAlike ==
    (ReachedVerb /\ IsHelp /\ ~BySettings) =>
        HelpLists({ c \in CmdSet \cup ReservedVerbs :
                      Pattern = <<>> \/ ByPrefix(c) \/ ByGlob(c) })

\* C23 as the code has it: the custom commands are matched by prefix or by
\* the glob rule, the reserved verbs by the glob rule alone.
C23_HelpMatchesCommandsByPrefix ==
    (ReachedVerb /\ IsHelp /\ ~BySettings) =>
        HelpLists({ c \in CmdSet : Pattern = <<>> \/ ByPrefix(c) \/ ByGlob(c) }
                  \cup { w \in ReservedVerbs : Pattern = <<>> \/ ByGlob(w) })

\* `Help Add` on a user scope listed AddNetwork alone, by its prefix
C23_Witness ==
    /\ ReachedVerb /\ IsHelp /\ ~BySettings
    /\ Pattern = L_Add
    /\ TableRows = << W_AddNetwork >>

(***************************************************************************)
(* C24: tables without rows                                                *)
(***************************************************************************)
TableCmds == { W_ListNetworks, W_Traffic }

\* the dispatch ran Help, List or a command that builds a table
MakesTable ==
    /\ ReachedVerb /\ ~BySettings
    /\ \/ IsHelp
       \/ IsList
       \/ ResolvedToScope /\ \E c \in TableCmds : ExecCalls = << ExecOf(c) >>

\* the lines of a table with no row between them
HeaderOnly ==
    /\ \E i \in 1..Len(out) : out[i].msg = "table header"
    /\ TableRows = <<>>

\* C24: a dispatch that runs Help, List or a command that builds a table
\* (ListNetworks, Traffic) on a scope it may use never sends a table without
\* rows and always sends at least one reply line.
C24_TableOrNoMatchesLine == MakesTable => (~HeaderOnly /\ out # <<>>)

(***************************************************************************)
(* C25, C26: the commands that end the process                             *)
(***************************************************************************)
\* a CException left the handler and the host ended the process
Terminated == pc = "exited"

\* the line was handled, whether the handler returned or threw
Handled == pc \in { "done", "exited" }

IsStop == Equals(Verb, W_Restart) \/ Equals(Verb, W_Shutdown)

\* the global Restart or Shutdown ran: the line went to the module, the
\* sender passed its admin gate and the verb names one of the two commands
StopRan == Handled /\ scope.kind = "Global" /\ PrincipalWasAdmin /\ IsStop /\ ~BySettings

Forced == Equals(Token(inp.line.rest, 1), L_force)

OpsCalled == [i \in 1..Len(calls) |-> calls[i].op]

\* what CZNC::WriteConfig returned in this dispatch
WriteFailed == \E i \in 1..Len(calls) : calls[i].op = "WriteConfig" /\ calls[i].name = L_false

SaveFailed == ReplyLine(ModName, "Error: ", "saving config failed", <<>>, <<>>)

AbortHint == ReplyLine(ModName, "", "Aborting. Use --force to ignore.", <<>>, <<>>)

\* C25: Restart and Shutdown end the process only after the configuration
\* write of the same dispatch, then the broadcast, and only when the write
\* succeeded or --force was given; when the write fails without --force the
\* replies are the save-failed error and the abort hint, nothing is
\* broadcast and the handler returns.
C25_StopOnlyAfterWrite ==
    StopRan =>
        /\ SubSeq(OpsCalled, 1, 2) = << "exec", "WriteConfig" >>
        /\ IF WriteFailed /\ ~Forced
           THEN /\ out = << SaveFailed, AbortHint >>
                /\ OpsCalled = << "exec", "WriteConfig" >>
                /\ ~Terminated /\ ret = "VOID"
           ELSE /\ OpsCalled = << "exec", "WriteConfig", "Broadcast", "throw" >>
                /\ Terminated /\ ret = "THROW"
                /\ out = <<>>

\* a Shutdown whose write failed went on because of --force
C25_Witness ==
    /\ StopRan /\ Equals(Verb, W_Shutdown) /\ Forced /\ WriteFailed
    /\ Terminated
    /\ calls[3].name = L_bye
    /\ calls[4].name = EX_Shutdown

\* C26: the process ends only in a dispatch of the global Restart or
\* Shutdown sent by an admin; every other line, whatever its address, its
\* sender and its verb, is handled and the handler returns to the host.
C26_OnlyStopTerminates ==
    /\ Terminated => StopRan
    /\ (Handled /\ ~StopRan) => (pc = "done" /\ ret \in { "HALT", "CONTINUE", "VOID" })

\* the non-admin alice sent Shutdown --force to the module and a Restart
\* went to a user scope: both returned
C26_Witness ==
    /\ pc = "done" /\ IsStop
    /\ \/ scope.kind = "Global" /\ ~PrincipalWasAdmin /\ Forced
             /\ out = << ReplyLine(ModName, "Error: ", "access denied.", <<>>, <<>>) >>
       \/ scope.kind = "User" /\ out = << UnknownCommand >>

(***************************************************************************)
(* C27: the error prefix                                                   *)
(***************************************************************************)
\* every reply of the dispatch is an error line, and there is one
AllErrors == out # <<>> /\ \A i \in 1..Len(out) : out[i].prefix = "Error: "

ValueLines == SelectSeq(out, LAMBDA l : l.msg = "=")

\* the custom commands the line may name
CmdsHere == IF BySettings THEN << >> ELSE CmdsOf(scope)

UnknownTarget == Handled /\ scope.kind = "Error"

GateDenied ==
    /\ Handled
    /\ ~PrincipalWasAdmin
    /\ \/ ResolvedToScope /\ scope.user # inp.p
       \/ scope.kind = "Global" /\ ~Equals(Verb, W_Help) /\ ~Equals(Verb, W_Get)
                                /\ ~Equals(Verb, W_List)

NamesNoVariable ==
    /\ ReachedVerb
    /\ Pattern # <<>>
    /\ Equals(Verb, W_Get) \/ Equals(Verb, W_Reset) \/ IsSet
    /\ MatchingVars = <<>>

NamesNoCommand ==
    /\ ReachedVerb
    /\ ~IsReservedVerb
    /\ \A i \in 1..Len(CmdsHere) : ~Equals(CmdsHere[i], Verb)

\* Set on one variable that showed no value: the setter refused
SetRefused == ReachedVerb /\ IsSet /\ Len(MatchingVars) = 1 /\ ValueLines = <<>>

ResetUnsupported ==
    ReachedVerb /\ IsReset /\ Len(MatchingVars) = 1 /\ ~MatchingVars[1].hasReset

\* C27: every error outcome (unknown or ambiguous target, access denied,
\* unknown variable, unknown command, a value the setter refuses, reset not
\* supported) is answered with lines that all carry the prefix "Error: ",
\* and no value line of Get, Set or Reset carries it.
C27_ErrorsCarryThePrefix ==
    /\ ( UnknownTarget \/ GateDenied \/ NamesNoVariable \/ NamesNoCommand
         \/ SetRefused \/ ResetUnsupported ) => AllErrors
    /\ \A i \in 1..Len(ValueLines) : ValueLines[i].prefix = ""

(***************************************************************************)
(* C28..C30: the reply target and the infix                                *)
(***************************************************************************)
\* the targets the replies of the dispatch went to
TargetsUsed == { out[i].tgt : i \in 1..Len(out) }

InfixChanged == infix[inp.p] # before.infix[inp.p]

\* C28: every reply of one dispatch goes to one target, fixed when the line
\* is read: the infix as stored then (or the status prefix) followed by the
\* address token as typed, or the name of the module for a line sent to the
\* module itself; a dispatch that changes the infix still answers to the
\* target made of the old one.
C28_OneTargetPerDispatch ==
    (Handled /\ ~BySettings) => TargetsUsed \subseteq { VerbTarget }

\* Set AdminInfix stored a new infix and its echo went to the old target
C28_Witness ==
    /\ Handled /\ ~BySettings /\ scope.kind = "User"
    /\ IsSet /\ Equals(Pattern, V_AdminInfix)
    /\ InfixChanged
    /\ out = << ReplyLine(ReplyTarget, "", "=", V_AdminInfix, infix[inp.p]) >>
    /\ ReplyTarget # GetInfix(infix, inp.p) \o Tok

\* the handler, run again on the state the line was read in, ends as observed
SameOutcome(st) ==
    /\ st.out = out /\ st.calls = calls
    /\ st.users = users /\ st.infix = infix /\ st.znc = znc

\* the dispatch of the line replayed with m remembered in m_sTarget
ReplayedWith(m) ==
    IF scope.kind = "Global"
    THEN \E sSalt \in SaltsFor(inp.line.rest), bWrite \in WriteResults(inp.line.rest) :
            SameOutcome(ModRaw(before.users, before.infix, before.znc, m, sSalt, bWrite,
                               inp.p, inp.line.rest))
    ELSE \E sSalt \in SaltsFor(inp.line.rest) :
            LET r == UserRaw(before.users, before.infix, before.znc, m, sSalt,
                             inp.p, inp.cn, inp.line)
            IN SameOutcome(r.st) /\ r.sc = scope

\* C29: the dispatcher keeps no state across lines.  Whatever reply target an
\* earlier dispatch left behind, the same line from the same principal in
\* the same state of the host objects and of the stored infix gives the same
\* reply lines to the same target, the same calls and the same state change.
C29_NoSessionState ==
    (Handled /\ ~BySettings) => \A m \in Remembered : ReplayedWith(m)

\* a line to the module was answered on the query of the module, and a line
\* to a user scope on the query named after its address
C29_Witness ==
    /\ Handled /\ ~BySettings /\ out # <<>>
    /\ \/ scope.kind = "Global" /\ TargetsUsed = { ModName }
       \/ scope.kind = "User" /\ TargetsUsed = { ReplyTarget }
    /\ \E m \in Remembered : ReplyTargetOf(m) \notin TargetsUsed

\* the infix in force when the line was read: the stored one, or the default
InfixInForce == IF before.infix[inp.p] # <<>> THEN before.infix[inp.p]
                ELSE GetStatusPrefix(inp.p)

\* the target carries the status prefix and the infix in force
CarriesInfix ==
    LET pfx == GetStatusPrefix(inp.p) \o InfixInForce
    IN /\ Len(pfx) <= Len(inp.line.target)
       /\ AsLower(SubSeq(inp.line.target, 1, Len(pfx))) = AsLower(pfx)

AfterInfix ==
    SubSeq(inp.line.target, Len(GetStatusPrefix(inp.p) \o InfixInForce) + 1,
           Len(inp.line.target))

IsQuery == Equals(inp.line.cmd, W_PRIVMSG) \/ Equals(inp.line.cmd, W_ZNC)

ByOnUserRaw == Handled /\ ~BySettings /\ scope.kind # "Global"

\* the dispatch passed the gate of a user scope and ran this verb on AdminInfix
RanOnInfix(verb) ==
    /\ ByOnUserRaw /\ ReachedVerb /\ scope.kind = "User"
    /\ Equals(Verb, verb) /\ Equals(Pattern, V_AdminInfix)

\* C30: the infix is read when the line is looked up: the stored setting when
\* it is not empty, the status prefix otherwise.  A line whose target does
\* not start with the status prefix and that infix is left to the host
\* untouched, and one that does and names "user" after it is answered by the
\* user scope of the sender; Set AdminInfix X stores X for the lines that
\* follow, and after Reset the infix in force is the status prefix again.
C30_InfixReadAtLookup ==
    /\ (ByOnUserRaw /\ ~(IsQuery /\ CarriesInfix))
          => (ret = "CONTINUE" /\ out = <<>> /\ HostUnchanged)
    /\ (ByOnUserRaw /\ IsQuery /\ CarriesInfix /\ AfterInfix = K_user)
          => (ret = "HALT" /\ scope = UserScope(inp.p))
    /\ (RanOnInfix(W_Set) /\ Value # <<>>) => infix[inp.p] = Value
    /\ RanOnInfix(W_Reset) => GetInfix(infix, inp.p) = GetStatusPrefix(inp.p)

\* with "!" stored by an earlier Set, a line to **user was left to the host
C30_Witness ==
    /\ ByOnUserRaw /\ IsQuery
    /\ before.infix[inp.p] = L_bang
    /\ inp.line.target = DefaultPrefix \o K_user
    /\ ret = "CONTINUE" /\ out = <<>>

(***************************************************************************)
(* C31: a user name in the first part shadows a network of the caller      *)
(***************************************************************************)
\* the caller owns a network named like the first part
CallerOwnsNetworkA == \E n \in NetsOf(inp.p) : Equals(n, PartA)

\* that network of the caller has a channel named like the second part
CallerNetworkHasB ==
    \E n \in NetsOf(inp.p) :
        Equals(n, PartA) /\ \E c \in ChansOf(inp.p, n) : Equals(c, PartB)

\* the scope is the channel B of the caller's network A
ChanOfCallerNetworkA ==
    /\ scope.kind = "Channel" /\ scope.user = inp.p
    /\ Equals(scope.net, PartA) /\ Equals(scope.chan, PartB)

TwoParts == Answered /\ IsRouted /\ SingleMiss /\ Len(Parts) = 2

\* C31: in A/B a known user A shadows a network A of the caller: when B is
\* no network of user A and no channel under the user/channel rule, the one
\* reply is the unknown-or-ambiguous error even if the caller's network A
\* has the channel B; with a known user A a channel is the scope only by
\* the user/channel rule, never as the channel of the caller's network A.
C31_UserReadingExcludesNetworkReading ==
    /\ (TwoPartsOfUser /\ CallerOwnsNetworkA
          /\ ~OwnChanHit(PartA, PartB) /\ ~OnlyNetworkHit(PartA, PartB))
          => ErrorOnly("unknown (or ambiguous) network or channel")
    /\ (TwoParts /\ PartA \in DOMAIN before.users /\ scope.kind = "Channel")
          => (OwnChanHit(PartA, PartB) \/ OnlyNetworkHit(PartA, PartB))

\* bob, who owns the network alice with the channel #dev, sends alice/#dev
C31_Witness ==
    /\ TwoPartsOfUser /\ CallerOwnsNetworkA /\ CallerNetworkHasB
    /\ ~OwnChanHit(PartA, PartB) /\ ~OnlyNetworkHit(PartA, PartB)
    /\ ErrorOnly("unknown (or ambiguous) network or channel")

\* the channel of an own network is reached through network/#chan
C31_NetworkReadingWitness ==
    /\ TwoParts /\ PartA \notin DOMAIN before.users
    /\ ChanOfCallerNetworkA /\ ret = "HALT"

(***************************************************************************)
(* C32: the frame of Set and Reset                                         *)
(***************************************************************************)
\* the variable name is among those the pattern of the line selects
Selected(name) == WildCmp(name, Pattern)

\* the user that owns the scope the line addressed
ScopeOwner == scope.user

\* the fields of user u other than its networks read as before, but for the
\* fields of the selected variables
UserFieldsKept(u, sel(_)) ==
    LET a == before.users[u]
        b == users[u]
    IN /\ (~sel(V_Admin)) => b.admin = a.admin
       /\ (~sel(V_Allow)) => b.allow = a.allow
       /\ (~sel(V_BindHost)) => b.bindHost = a.bindHost
       /\ (~sel(V_ChanBufferSize)) => b.chanBufferSize = a.chanBufferSize
       /\ (~sel(V_CTCPReply)) => b.ctcp = a.ctcp
       /\ (~sel(V_DCCBindHost)) => b.dccBindHost = a.dccBindHost
       /\ (~sel(V_DenyLoadMod)) => b.denyLoadMod = a.denyLoadMod
       /\ (~sel(V_DenySetBindHost)) => b.denySetBindHost = a.denySetBindHost
       /\ (~sel(V_Password)) => b.pass = a.pass
       /\ (~sel(V_MaxNetworks)) => b.maxNetworks = a.maxNetworks
       /\ b.mods = a.mods

NoneSelected(name) == FALSE

\* the global settings read as before, but for the selected variables
GlobalFieldsKept(sel(_)) ==
    /\ (~sel(V_MaxBufferSize)) => znc.maxBufferSize = before.znc.maxBufferSize
    /\ (~sel(V_Motd)) => znc.motd = before.znc.motd
    /\ (~sel(V_Skin)) => znc.skin = before.znc.skin
    /\ (~sel(V_StatusPrefix)) => znc.statusPrefix = before.znc.statusPrefix

SetOrReset == Answered /\ ~BySettings /\ (IsSet \/ IsReset)

\* C32 (as claimed): a Set or Reset of the variables X addressed to scope S
\* changes at most the settings X of S: the other variables of S, the
\* variables of every other scope and the stored infix of every user other
\* than the owner of S read as before.
C32_SetResetFrame ==
    SetOrReset =>
       /\ DOMAIN users = DOMAIN before.users
       /\ \A u \in DOMAIN users :
             /\ u # ScopeOwner => (users[u] = before.users[u] /\ infix[u] = before.infix[u])
             /\ (u = ScopeOwner /\ scope.kind = "User")
                   => /\ UserFieldsKept(u, Selected)
                      /\ users[u].nets = before.users[u].nets
                      /\ (~Selected(V_AdminInfix)) => infix[u] = before.infix[u]
             /\ (u = ScopeOwner /\ scope.kind \in { "Network", "Channel" })
                   => /\ UserFieldsKept(u, NoneSelected)
                      /\ infix[u] = before.infix[u]
                      /\ DOMAIN users[u].nets = DOMAIN before.users[u].nets
                      /\ \A n \in DOMAIN users[u].nets :
                            n # scope.net => users[u].nets[n] = before.users[u].nets[n]
       /\ IF scope.kind = "Global" THEN GlobalFieldsKept(Selected)
          ELSE znc = before.znc

\* the admin, addressing the user scope of another user, changed its own
\* stored infix
C32_ForeignInfixWitness ==
    /\ SetOrReset /\ scope.kind = "User" /\ ScopeOwner # inp.p
    /\ Equals(Pattern, V_AdminInfix)
    /\ infix[inp.p] # before.infix[inp.p]
    /\ infix[ScopeOwner] = before.infix[ScopeOwner]

\* Set StatusPrefix on the host changed the skin and left the status prefix
C32_SkinWitness ==
    /\ SetOrReset /\ scope.kind = "Global" /\ IsSet
    /\ Equals(Pattern, V_StatusPrefix)
    /\ znc.skin # before.znc.skin
    /\ znc.statusPrefix = before.znc.statusPrefix

(***************************************************************************)
(* C33: the module query of a principal that is not admin                  *)
(***************************************************************************)
IsReadVerb == Equals(Verb, W_Help) \/ Equals(Verb, W_List) \/ Equals(Verb, W_Get)

\* the line went to the module query and its sender was not admin
NonAdminQuery ==
    Handled /\ ~BySettings /\ scope.kind = "Global" /\ ~PrincipalWasAdmin

GlobalDenied == ReplyLine(ModName, "Error: ", "access denied.", <<>>, <<>>)

\* the closures that read: every other call changes something or runs a
\* command
ReadOps == { "get" }

\* C33: a line a principal that is not admin sends to the module query
\* changes no global variable (nor anything else of the host), runs no
\* command of the global registry and never ends the process; only Help,
\* List and Get are served, every other verb gets the one access-denied
\* reply.
C33_NonAdminQueryOnlyReads ==
    NonAdminQuery =>
       /\ HostUnchanged
       /\ pc = "done"
       /\ \A i \in 1..Len(calls) : calls[i].op \in ReadOps
       /\ ~IsReadVerb => (out = << GlobalDenied >> /\ calls = <<>>)

\* alice, not admin, sent SaveConfig, Broadcast or Set Motd to the module
\* and got access denied
C33_Witness ==
    /\ NonAdminQuery /\ out = << GlobalDenied >>
    /\ \/ Equals(Verb, W_SaveConfig)
       \/ Equals(Verb, W_Broadcast)
       \/ IsSet /\ Equals(Pattern, V_Motd)

\* alice, not admin, was served a Get of a global variable
C33_ServedWitness ==
    /\ NonAdminQuery /\ Equals(Verb, W_Get) /\ Equals(Pattern, V_Motd)
    /\ Len(out) = 1 /\ out[1].prefix = "" /\ out[1].name = V_Motd

(***************************************************************************)
(* C34: Help, List and Get read                                            *)
(***************************************************************************)
\* the closures that write or run a command
WriteOps == { "set", "reset", "exec", "WriteConfig", "Broadcast", "throw" }

ReadLine == Handled /\ ~BySettings /\ IsReadVerb

\* C34: a line whose verb is Help, List or Get, from any principal to any
\* address and with any argument, leaves the host as it was: the users with
\* their variables, networks and channels, the stored infix of every user
\* and the global settings; no setter, resetter or command runs and the
\* handler returns.
C34_ReadVerbsChangeNothing ==
    ReadLine =>
       /\ HostUnchanged
       /\ pc = "done"
       /\ \A i \in 1..Len(calls) : calls[i].op \notin WriteOps

\* Get Admin showed the flag an earlier Set had raised, and left it raised
C34_Witness ==
    /\ ReadLine /\ IsGet /\ ReachedVerb /\ Equals(Pattern, V_Admin)
    /\ scope.kind = "User" /\ users[scope.user].admin
    /\ out = << ReplyLine(VerbTarget, "", "=", V_Admin, L_true) >>
    /\ HostUnchanged

(***************************************************************************)
(* C35: DenyLoadMod                                                        *)
(***************************************************************************)
ModOps == { "LoadModule", "ReloadModule", "UnloadModule" }

IsModVerb == Equals(Verb, W_LoadMod) \/ Equals(Verb, W_ReloadMod) \/ Equals(Verb, W_UnloadMod)

\* no module is loaded on any scope
NoModules ==
    /\ znc.mods = {}
    /\ \A u \in DOMAIN users :
          /\ users[u].mods = {}
          /\ \A n \in DOMAIN users[u].nets : users[u].nets[n].mods = {}

\* C35 (as claimed), for alice, who is not admin and has DenyLoadMod set when
\* she starts and who alone sends lines: whatever she sends, no module is
\* ever loaded, reloaded or unloaded on any scope and her flag stays set.
C35_DeniedNeverLoads ==
    /\ NoModules
    /\ \A i \in 1..Len(calls) : calls[i].op \notin ModOps
    /\ users[N_alice].denyLoadMod

\* the part of C35 that holds line by line: a sender that is not admin and
\* has the flag set when the line arrives gets LoadMod, ReloadMod and
\* UnloadMod rejected on every scope, and Set and Reset leave the flag set
C35_DeniedLineIsRejected ==
    (Handled /\ ~BySettings /\ ~PrincipalWasAdmin /\ before.users[inp.p].denyLoadMod)
       => /\ \A i \in 1..Len(calls) : calls[i].op \notin ModOps
          /\ \A u \in DOMAIN users :
                /\ users[u].mods = before.users[u].mods
                /\ users[u].denyLoadMod = before.users[u].denyLoadMod
                /\ \A n \in DOMAIN users[u].nets \cap DOMAIN before.users[u].nets :
                      users[u].nets[n].mods = before.users[u].nets[n].mods
          /\ znc.mods = before.znc.mods
          /\ (IsModVerb /\ scope.kind \in { "User", "Network" } /\ scope.user = inp.p)
                => out = << ReplyLine(VerbTarget, "Error: ", "access deniend", <<>>, <<>>) >>

\* alice made herself admin and then loaded a module with her flag still set
C35_EscalationWitness ==
    /\ Handled /\ inp.p = N_alice /\ Equals(Verb, W_LoadMod)
    /\ users[N_alice].denyLoadMod /\ users[N_alice].admin
    /\ M_log \in users[N_alice].mods
    /\ \E i \in 1..Len(calls) : calls[i].op = "LoadModule"

\* alice, not admin and denied, had LoadMod rejected
C35_RejectedWitness ==
    /\ Handled /\ ~PrincipalWasAdmin /\ before.users[inp.p].denyLoadMod
    /\ Equals(Verb, W_LoadMod) /\ scope.kind = "Network"
    /\ out = << ReplyLine(VerbTarget, "Error: ", "access deniend", <<>>, <<>>) >>

(***************************************************************************)
(* C36: the network limit                                                  *)
(***************************************************************************)
IsAddNetwork == Equals(Verb, W_AddNetwork)

\* the user u has a network it did not have before the line
GainedNetwork(u) == ~(DOMAIN users[u].nets \subseteq DOMAIN before.users[u].nets)

HadSpace(u) == NetworkCount(before.users, u) < before.users[u].maxNetworks

NamesMaxNetworks == Equals(Pattern, V_MaxNetworks)

\* C36: a line of a sender that is not admin adds a network to a user only if
\* that user had fewer networks than its MaxNetworks before the line; it never
\* changes any user's MaxNetworks, and Set and Reset of MaxNetworks are
\* answered access denied; an AddNetwork answered with an error leaves every
\* network list as it was.
C36_NonAdminWithinLimit ==
    (Handled /\ ~BySettings /\ ~PrincipalWasAdmin)
       => /\ \A u \in DOMAIN users : GainedNetwork(u) => HadSpace(u)
          /\ \A u \in DOMAIN users : users[u].maxNetworks = before.users[u].maxNetworks
          /\ ((IsSet \/ IsReset) /\ NamesMaxNetworks /\ scope.kind = "User"
                 /\ scope.user = inp.p)
                => out = << ErrorReply("access denied") >>
          /\ (IsAddNetwork /\ AllErrors)
                => \A u \in DOMAIN users : users[u].nets = before.users[u].nets

\* alice, not admin and at her limit, had AddNetwork refused
C36_Witness ==
    /\ Handled /\ ~PrincipalWasAdmin /\ IsAddNetwork
    /\ scope.kind = "User" /\ ~HadSpace(scope.user)
    /\ out = << ErrorReply("exceeded limit") >>
    /\ users = before.users

\* alice, not admin and below her limit, added a network
C36_AddedWitness ==
    /\ Handled /\ ~PrincipalWasAdmin /\ IsAddNetwork
    /\ scope.kind = "User" /\ HadSpace(scope.user) /\ GainedNetwork(scope.user)

\* alice, not admin, had Set MaxNetworks refused
C36_SetRefusedWitness ==
    /\ Handled /\ ~PrincipalWasAdmin /\ IsSet /\ NamesMaxNetworks
    /\ out = << ErrorReply("access denied") >>

(***************************************************************************)
(* C37: DelUser and the sender                                             *)
(***************************************************************************)
IsDelUser == Equals(Verb, W_DelUser)

\* the line reached the global command DelUser: it went to the module from
\* an admin
DelUserRan == Handled /\ inp.mod = "admin" /\ scope.kind = "Global" /\ PrincipalWasAdmin /\ IsDelUser

\* C37: whatever line a user sends, that user is in the directory afterwards;
\* DelUser naming the sender is answered access denied alone and leaves the
\* directory and every user as they were.
C37_SenderStaysInDirectory ==
    /\ Handled => inp.p \in DOMAIN users
    /\ (DelUserRan /\ Pattern = inp.p)
          => /\ out = << ReplyLine(VerbTarget, "Error: ", "access denied", <<>>, <<>>) >>
             /\ users = before.users
             /\ \A i \in 1..Len(calls) : calls[i].op # "DeleteUser"

\* an admin named itself in DelUser and was refused
C37_Witness ==
    /\ DelUserRan /\ Pattern = inp.p
    /\ out = << ReplyLine(VerbTarget, "Error: ", "access denied", <<>>, <<>>) >>
    /\ inp.p \in DOMAIN users

\* an admin deleted another user
C37_DeletedWitness ==
    /\ DelUserRan /\ Pattern # inp.p /\ Pattern \in DOMAIN before.users
    /\ Pattern \notin DOMAIN users

(***************************************************************************)
(* C38: Rehash                                                             *)
(***************************************************************************)
\* the global command Rehash ran: the line went to the module from an admin
RehashRan ==
    /\ Handled /\ inp.mod = "admin" /\ scope.kind = "Global" /\ PrincipalWasAdmin
    /\ Equals(Verb, W_Rehash)

\* what CZNC::RehashConfig returned to the line: "true" for a reload that
\* succeeded
RehashResult == (SelectSeq(calls, LAMBDA c : c.op = "RehashConfig"))[1].name

\* C38 (as claimed): Rehash answers with the success line exactly when the
\* reload succeeded and with the failure line exactly when it failed.
C38_RehashReportsFaithfully ==
    RehashRan
       => /\ RehashResult = L_true
             => out = << ReplyLine(VerbTarget, "Success: ", "read", <<>>, <<>>) >>
          /\ RehashResult = L_false
             => out = << ReplyLine(VerbTarget, "Error: ", "failed to read", <<>>, <<>>) >>

\* what Rehash does: the two lines are exchanged
C38_RehashReportsInverted ==
    RehashRan
       => /\ RehashResult \in { L_true, L_false }
          /\ RehashResult = L_true
             => out = << ReplyLine(VerbTarget, "Error: ", "failed to read", <<>>, <<>>) >>
          /\ RehashResult = L_false
             => out = << ReplyLine(VerbTarget, "Success: ", "read", <<>>, <<>>) >>

\* the reload succeeded and Rehash reported a failure
C38_SucceededWitness ==
    /\ RehashRan /\ RehashResult = L_true
    /\ out = << ReplyLine(VerbTarget, "Error: ", "failed to read", <<>>, <<>>) >>

\* the reload failed and Rehash reported success
C38_FailedWitness ==
    /\ RehashRan /\ RehashResult = L_false
    /\ out = << ReplyLine(VerbTarget, "Success: ", "read", <<>>, <<>>) >>

(***************************************************************************)
(* C39: ListPorts                                                          *)
(***************************************************************************)
\* the global command ListPorts ran: the line went to the module from an admin
ListPortsRan ==
    /\ Handled /\ inp.mod = "admin" /\ scope.kind = "Global" /\ PrincipalWasAdmin
    /\ Equals(Verb, W_ListPorts)

\* the listeners the filter of the line selects, in the order of the list
MatchingListeners ==
    SelectSeq(Listeners, LAMBDA l : Pattern = <<>> \/ ListenerMatches(l, Pattern))

\* the rows of the table the line was answered with
PortRows ==
    LET rows == SelectSeq(out, LAMBDA l : l.msg = "table row")
    IN [i \in 1..Len(rows) |-> rows[i].name]

SaidNoMatches == \E i \in 1..Len(out) : out[i].msg = "No matches for"

\* C39 (as claimed): ListPorts answers with one row for every listener the
\* filter matches, in list order and wherever the listener stands in the
\* list, and with the no-matches line only when no listener matches.
C39_ListPortsListsTheMatches ==
    ListPortsRan
       => /\ PortRows = [i \in 1..Len(MatchingListeners) |-> PortCell(MatchingListeners[i])]
          /\ SaidNoMatches <=> MatchingListeners = <<>>

\* what ListPorts does: the table of all listeners when the filter matches
\* every one of them, and the no-matches line alone otherwise
C39_ListPortsAllOrNothing ==
    ListPortsRan
       => IF Len(MatchingListeners) = Len(Listeners)
          THEN /\ PortRows = [i \in 1..Len(Listeners) |-> PortCell(Listeners[i])]
               /\ ~SaidNoMatches
          ELSE out = << ReplyLine(VerbTarget, "", "No matches for", Pattern, <<>>) >>

\* the filter matches the second and the third listener, not the first, and
\* the answer is the no-matches line
C39_LaterMatchWitness ==
    /\ ListPortsRan /\ Pattern = O_WEB
    /\ Len(MatchingListeners) = 2 /\ ~ListenerMatches(Listeners[1], Pattern)
    /\ out = << ReplyLine(VerbTarget, "", "No matches for", Pattern, <<>>) >>

\* the filter matches the first listener alone, and no row is sent
C39_FirstMatchWitness ==
    /\ ListPortsRan /\ Pattern = P_6667
    /\ MatchingListeners = << Listeners[1] >>
    /\ PortRows = << >> /\ SaidNoMatches

\* without a filter every listener is listed
C39_AllListedWitness ==
    /\ ListPortsRan /\ Pattern = <<>>
    /\ PortRows = << P_6667, <<"+">> \o P_6697, P_8080 >>

====
